---- MODULE Spec2Model ----
(***************************************************************************)
(* Wake-cycle controller of the automaton (src/src/agent/loop.ts,          *)
(* runAgentLoop) and the survival economics engine                         *)
(* (src/src/survival/economics.ts).                                        *)
(*                                                                         *)
(* Time is counted in whole minutes: 600_000 ms = 10, 300_000 ms = 5.      *)
(* Text (exec commands) is a sequence of one-character strings, so that    *)
(* trim() and slice(0, 80) are computed, not assumed.                      *)
(***************************************************************************)
EXTENDS Integers, Sequences, FiniteSets, TLC

\* ------------------------------------------------------------------------
\* Program constants
\* ------------------------------------------------------------------------
MAX_TOOL_CALLS_PER_TURN == 10
MAX_CONSECUTIVE_ERRORS == 5
MAX_TURNS_PER_WAKE == 20
STUCK_THRESHOLD == 3
FINGERPRINT_LEN == 80
STUCK_COOLDOWN == 10
CAP_COOLDOWN == 10
IDLE_COOLDOWN == 5
ERROR_COOLDOWN == 5

ONCE_PER_WAKE_TOOLS ==
  {"check_economics", "check_credits", "scan_landscape", "heartbeat_ping",
   "check_health"}

BOOT_CMD_ENV ==
  <<
    "l","s"," ","-","l","a"," ","~","/"," ","&","&"," ","u","n","a","m","e",
    " ","-","a"," ","&","&"," ","w","h","o","a","m","i"," ","&","&"," ","p",
    "w","d" >>

BOOT_CMD_TOOLING ==
  <<
    "w","h","i","c","h"," ","n","o","d","e"," ","&","&"," ","n","o","d","e",
    " ","-","-","v","e","r","s","i","o","n"," ","&","&"," ","w","h","i","c",
    "h"," ","g","i","t"," ","&","&"," ","g","i","t"," ","-","-","v","e","r",
    "s","i","o","n"," ","2",">","/","d","e","v","/","n","u","l","l",";"," ",
    "w","h","i","c","h"," ","p","y","t","h","o","n","3"," ","&","&"," ","p",
    "y","t","h","o","n","3"," ","-","-","v","e","r","s","i","o","n"," ","2",
    ">","/","d","e","v","/","n","u","l","l",";"," ","w","h","i","c","h"," ",
    "c","u","r","l"," ","&","&"," ","c","u","r","l"," ","-","-","v","e","r",
    "s","i","o","n"," ","2",">","/","d","e","v","/","n","u","l","l"," ","|",
    " ","h","e","a","d"," ","-","1" >>

bootstrapSteps ==
  << [name |-> "check_economics", command |-> << >>],
     [name |-> "exec", command |-> BOOT_CMD_ENV],
     [name |-> "exec", command |-> BOOT_CMD_TOOLING] >>

\* ------------------------------------------------------------------------
\* Bounds of the model
\* ------------------------------------------------------------------------
MaxNow == 1            \* the clock runs over 0..MaxNow
MaxReq == 2            \* most tool calls one inference response requests
MaxRunway == 80        \* runway hours drawn for the tier function
MaxSpent == 12         \* largest total of recorded turn costs, cents
MaxEarned == 10        \* largest total of earnings, cents
MaxTurnCount == 10    \* turns counted in the turns table, where followed
MaxModeCalls == 3     \* setLowComputeMode calls made on one client
MaxScans == 2         \* scanLandscape invocations that may overlap
MaxScanClock == 11    \* minutes the scanner's clock runs
MaxMessages == 6      \* messages inserted into the inbox
MaxFollowed == 2      \* messages inserted where their fate is followed
MaxPolls == 3         \* runs of check_social_inbox
MaxMessageId == 2     \* message ids the relay hands out
MaxPollLen == 2       \* most messages one poll returns
MaxChildren == 2       \* largest numChildren the spawn gate is asked about

\* durations (minutes) the sleep tool is called with
SleepDurations == {1}

\* ------------------------------------------------------------------------
\* Text helpers
\* ------------------------------------------------------------------------
Min(a, b) == IF a < b THEN a ELSE b

\* the white space the texts of the model contain
WHITESPACE == {" ", "\n"}

RECURSIVE TrimStart(_)
TrimStart(s) ==
  IF s # << >> /\ Head(s) \in WHITESPACE THEN TrimStart(Tail(s)) ELSE s

RECURSIVE TrimEnd(_)
TrimEnd(s) ==
  IF s # << >> /\ s[Len(s)] \in WHITESPACE
    THEN TrimEnd(SubSeq(s, 1, Len(s) - 1))
    ELSE s

\* String.prototype.trim
Trim(s) == TrimEnd(TrimStart(s))

\* String.prototype.slice(0, n)
Slice(s, n) == SubSeq(s, 1, Min(n, Len(s)))

\* decimal text of a natural number (String(n)) and its value (Number(s))
DIGITS == << "0", "1", "2", "3", "4", "5", "6", "7", "8", "9" >>

RECURSIVE String(_)
String(n) ==
  IF n < 10 THEN << DIGITS[n + 1] >>
  ELSE Append(String(n \div 10), DIGITS[(n % 10) + 1])

DigitValue(ch) == (CHOOSE i \in 1..10 : DIGITS[i] = ch) - 1

RECURSIVE NumberOf(_)
NumberOf(s) ==
  IF Len(s) = 1 THEN DigitValue(s[1])
  ELSE 10 * NumberOf(SubSeq(s, 1, Len(s) - 1)) + DigitValue(s[Len(s)])

\* Number(db.getKV(key) || "0")
Number(kv) == IF kv = << >> THEN 0 ELSE NumberOf(kv)

\* db KV "start_time": no value, and a value one hour before the origin of
\* the clock
NoStart == << >>
START_EARLIER == << 0 - 60 >>

\* ------------------------------------------------------------------------
\* Tool calls the inference backend may request.  A request is a tool name
\* and the "command" argument; << >> stands for a call whose arguments hold
\* no command (args.command is falsy).
\* ------------------------------------------------------------------------
Req(n, c) == [name |-> n, command |-> c]

\* the i-th element of response.toolCalls; its id is its position
Call(rq, i) == [name |-> rq.name, command |-> rq.command, id |-> i]

CMD_A == << "a" >>
CMD_A_PADDED == << " ", "a", " " >>
CMD_B == << "b" >>
CMD_LONG_X == BOOT_CMD_TOOLING \o << "x" >>
CMD_LONG_Y == BOOT_CMD_TOOLING \o << "y" >>

AllRequests ==
  { Req("check_economics", << >>), Req("check_credits", << >>),
    Req("sleep", << >>), Req("write_file", << >>), Req("exec", << >>),
    Req("exec", CMD_A), Req("exec", CMD_A_PADDED), Req("exec", CMD_B),
    Req("exec", CMD_LONG_X), Req("exec", CMD_LONG_Y),
    Req("exec", BOOT_CMD_ENV) }

FinishReasons == {"stop", "tool_calls", "length"}
SurvivalTiers == {"normal", "low_compute", "critical", "dead"}

\* ------------------------------------------------------------------------
\* State
\* ------------------------------------------------------------------------
VARIABLES
  pc,                  \* position of runAgentLoop: stopped, bootstrap, top,
                       \* infer, tools
  now,                 \* wall clock, minutes
  agentState,          \* db AgentState
  sleep_until,         \* db KV "sleep_until"; 0 is the empty string
  start_time,          \* db KV "start_time": << minutes >>, << >> if unset
  total_spent_cents,   \* db KV "total_spent_cents", text; << >> if unset
  lowComputeMode,      \* inference client: low-compute mode enabled
  consecutiveErrors, turnsThisWake, lastToolName, consecutiveSameTool,
  calledOnceTools, executedCommands,
  bootIdx,             \* index of the next bootstrap step
  pendingInput,        \* source tag of the pending input, "none" if undefined
  currentInput,        \* source tag of the input captured for the turn
  respLen,             \* response.toolCalls.length
  finishReason,        \* response.finishReason
  toolCalls,           \* turn.toolCalls
  callCount,
  costCents,           \* response.costCents ?? turn.costCents
  tier,                \* survival tier of the iteration, "none" outside
  catalog,             \* the requests the backend issues in this run
  reqSizes,            \* the numbers of tool calls its responses carry
  costs,               \* the costs (cents) its responses come to
  tracking,            \* whether the observer keeps history across sessions
  \* history variables: what an observer of the session has seen
  endReason,           \* why the session stopped, "none" while it runs
  endTime,             \* clock value when it stopped
  persistedTurns,      \* db.insertTurn calls of this session
  runFp, runLen,       \* current run of single-call turns with one fingerprint
  failStreak,          \* failed iterations since the last completed one
  bootInvoked,         \* gated keys the bootstrap phase handed to the executor
  loopInvoked,         \* executor invocations of loop turns, per gated key
  turnExecs,           \* executor invocations of the current iteration
  earlier,             \* gated keys the executor was invoked for in earlier
                       \* sessions (kept where tracking is on)
  processEnv,          \* process.env: which of its variables are set
  scenario,            \* what the tools, the backend and the balance
                       \* queries can do in this run
  financial,           \* FinancialState of the session
  queried,             \* outcomes of the two balance queries of the last
                       \* refresh
  bootstrapResults,    \* output texts of the bootstrap phase
  bootOutcomes,        \* how each bootstrap step of the session ended
  responseCost,        \* response.costCents: << >> if undefined, << cents >>
  lastTurn,            \* the turn db.insertTurn was last called with
  turnCount,           \* db.getTurnCount(), followed where scenario.counting
  snapshots,           \* rows db.insertEconomicsSnapshot has added
  last_economics_snapshot,  \* db KV "last_economics_snapshot"
  snapshotOutcome,     \* how the snapshot block of the last loop turn ended
  inboxArrived,        \* inbox messages inserted so far: ids 1..inboxArrived
  inboxProcessed,      \* ids marked processed
  pendingMessages,     \* ids folded into pendingInput
  currentMessages,     \* ids folded into currentInput
  turnInputs,          \* ids that were the input of a persisted turn
  droppedMessages,     \* ids that were the input of an iteration that threw
  \* harness of the tier function: two runway values and their tiers
  r1, r2, t1, t2,
  \* harness of the economics functions
  budgetCents,         \* config.budgetCents
  total_earned_cents,  \* db KV "total_earned_cents", text; << >> if unset
  econResult,          \* what the last call of an economics function returned
  \* harness of the Anthropic translation
  messages,            \* params.messages of chatViaAnthropic
  body,                \* the request body built from them
  data,                \* the response of the endpoint
  response,            \* what chatViaAnthropic returns or throws
  \* harness of the inference client
  client,              \* options, currentModel and maxTokens of the closure
  modeCalls,           \* arguments of the setLowComputeMode calls so far
  chatRequest,         \* where the last chat call went and what it sent
  \* harness of the landscape scanner
  scanPc,              \* position of each scanLandscape invocation
  scanReturn,          \* id of the snapshot each invocation returned, 0: none
  lastScanResult,      \* the module's cache: << >> is null
  scanClock,           \* Date.now(), minutes
  fanOuts,             \* Date.now() at the start of each fan-out
  landscapeSnapshots,  \* rows of db.insertLandscapeSnapshot: id, time, how
                       \* the branches settled, and the snapshot
  social,              \* ctx.social is configured
  socialPc,            \* check_social_inbox: idle, or polling (at the await)
  pollCursor,          \* the cursor the pending poll was called with
  inbox_seen,          \* ids m with db KV "inbox_seen_<m>" set
  inbox_messages,      \* rows of db.insertInboxMessage, ids in order
  social_inbox_cursor, \* db KV "social_inbox_cursor": << text >>, or << >>
  taskRuns,            \* runs of check_social_inbox so far
  taskResult           \* what the last run polled and returned

inputVars == << catalog, reqSizes, costs, tracking, processEnv, scenario >>
refreshVars == << financial, queried >>
bootVars == << bootstrapResults, bootOutcomes >>
snapshotVars ==
  << turnCount, snapshots, last_economics_snapshot, snapshotOutcome >>
dbVars == << lastTurn, snapshotVars >>
inboxDb == << inboxArrived, inboxProcessed >>
inboxVars ==
  << inboxDb, pendingMessages, currentMessages, turnInputs,
     droppedMessages >>

wakeVars == << earlier, start_time >>

loopVars ==
  << pc, now, agentState, sleep_until, lowComputeMode, consecutiveErrors,
     turnsThisWake, lastToolName, consecutiveSameTool, calledOnceTools,
     executedCommands, bootIdx, pendingInput, currentInput, respLen,
     finishReason, toolCalls, callCount, costCents, tier, inputVars,
     wakeVars, total_spent_cents, endReason, endTime,
     persistedTurns, runFp, runLen, failStreak, bootInvoked, loopInvoked,
     turnExecs, refreshVars, bootVars, responseCost, dbVars, inboxVars >>

tierVars == << r1, r2, t1, t2 >>
econVars == << budgetCents, total_earned_cents, econResult >>
anthVars == << messages, body, data, response >>
clientVars == << client, modeCalls, chatRequest >>
scanVars ==
  << scanPc, scanReturn, lastScanResult, scanClock, fanOuts,
     landscapeSnapshots >>
socialVars ==
  << social, socialPc, pollCursor, inbox_seen, inbox_messages,
     social_inbox_cursor, taskRuns, taskResult >>
fnVars ==
  << tierVars, econVars, anthVars, clientVars, scanVars, socialVars >>

vars == << loopVars, fnVars >>

\* ------------------------------------------------------------------------
\* Admission guard
\* ------------------------------------------------------------------------
NoFingerprint == << "", << >> >>

\* `exec:${command.slice(0, 80)}` or the tool name; the pair keeps the
\* prefix and the sliced text apart
Fingerprint(tc0) ==
  IF tc0.name = "exec" /\ tc0.command # << >>
  THEN << "exec", Slice(tc0.command, FINGERPRINT_LEN) >>
  ELSE << tc0.name, << >> >>

\* the key is the raw text, not the trimmed text
CmdKey_NoTrim(command) == command

CmdKey(command) == Trim(command)

OnceBlocked(tc, called) ==
  tc.name \in ONCE_PER_WAKE_TOOLS /\ tc.name \in called

ExecBlocked(tc, commands) ==
  tc.name = "exec" /\ tc.command # << >> /\ CmdKey(tc.command) \in commands

BlockedResult(tc) ==
  [id |-> tc.id, name |-> tc.name, command |-> tc.command, blocked |-> TRUE,
   error |-> FALSE, durationMs |-> 0]

\* the executor's ToolCallResult
ExecutedResult(tc, isError) ==
  [id |-> tc.id, name |-> tc.name, command |-> tc.command, blocked |-> FALSE,
   error |-> isError, durationMs |-> 1]

TrackCommands(tc, commands) ==
  IF tc.name = "exec" /\ tc.command # << >>
  THEN commands \cup {CmdKey(tc.command)}
  ELSE commands

\* the tool is never entered in the set
TrackOnce_Forget(name, called) == called

TrackOnce(name, called) ==
  IF name \in ONCE_PER_WAKE_TOOLS THEN called \cup {name} ELSE called

\* key under which the history variables count executor invocations
GateKey(tc) ==
  IF tc.name = "exec" THEN << "exec", Trim(tc.command) >>
  ELSE << tc.name, << >> >>

Gated(tc) ==
  tc.name \in ONCE_PER_WAKE_TOOLS \/ (tc.name = "exec" /\ tc.command # << >>)

GatedKeys == { GateKey(tc) : tc \in { q \in AllRequests : Gated(q) } }

\* a repeated fingerprint restarts the count instead of raising it
NextRepetition_Restart(calls, last, count) ==
  IF Len(calls) = 1
  THEN [last |-> Fingerprint(calls[1]), count |-> 1]
  ELSE IF Len(calls) > 1
       THEN [last |-> NoFingerprint, count |-> 0]
       ELSE [last |-> last, count |-> count]

\* repetition counter after a persisted turn with these tool-call results
NextRepetition(calls, last, count) ==
  IF Len(calls) = 1
  THEN IF Fingerprint(calls[1]) = last
       THEN [last |-> last, count |-> count + 1]
       ELSE [last |-> Fingerprint(calls[1]), count |-> 1]
  ELSE IF Len(calls) > 1
       THEN [last |-> NoFingerprint, count |-> 0]
       ELSE [last |-> last, count |-> count]

\* turn.toolCalls.find(tc => tc.name === "sleep"), then !sleepTool.error
SleepIndexes(calls) == { i \in 1..Len(calls) : calls[i].name = "sleep" }

FirstSleep(calls) ==
  CHOOSE i \in SleepIndexes(calls) : \A j \in SleepIndexes(calls) : i <= j

SleepRuleMatches(calls) ==
  SleepIndexes(calls) # {} /\ ~calls[FirstSleep(calls)].error

\* the turn cap compares with > instead of >=
TerminationRule_CapLate(count, calls, turns, rlen, finish) ==
  IF count >= STUCK_THRESHOLD THEN "stuck"
  ELSE IF SleepRuleMatches(calls) THEN "sleep"
  ELSE IF turns > MAX_TURNS_PER_WAKE THEN "cap"
  ELSE IF rlen = 0 /\ finish = "stop" THEN "idle"
  ELSE "none"

\* the termination rule that takes effect after a persisted turn
TerminationRule(count, calls, turns, rlen, finish) ==
  IF count >= STUCK_THRESHOLD THEN "stuck"
  ELSE IF SleepRuleMatches(calls) THEN "sleep"
  ELSE IF turns >= MAX_TURNS_PER_WAKE THEN "cap"
  ELSE IF rlen = 0 /\ finish = "stop" THEN "idle"
  ELSE "none"

\* the idle rule uses the ten-minute cooldown
RuleDeadline_IdleLong(rule, current, clock) ==
  CASE rule = "stuck" -> clock + STUCK_COOLDOWN
    [] rule = "cap" -> clock + CAP_COOLDOWN
    [] rule = "idle" -> clock + CAP_COOLDOWN
    [] OTHER -> current

\* deadline the controller writes for a rule; the sleep rule writes none
RuleDeadline(rule, current, clock) ==
  CASE rule = "stuck" -> clock + STUCK_COOLDOWN
    [] rule = "cap" -> clock + CAP_COOLDOWN
    [] rule = "idle" -> clock + IDLE_COOLDOWN
    [] OTHER -> current

\* consecutiveErrors after the catch block ran
ErrorsAfterThrow(errors) == errors + 1

\* the catch block never gives up
ErrorLimitReached_Never(errors) == FALSE

\* the limit is reached one error early
ErrorLimitReached_Early(errors) == errors >= MAX_CONSECUTIVE_ERRORS - 1

ErrorLimitReached(errors) == errors >= MAX_CONSECUTIVE_ERRORS

\* ------------------------------------------------------------------------
\* Survival economics
\* ------------------------------------------------------------------------
RUNWAY_TIERS == [normal |-> 72, low_compute |-> 24, critical |-> 4]

\* runwayHours of a snapshot whose burn rate is zero (Infinity)
UNLIMITED_RUNWAY == 99999

\* the low_compute comparison is reversed
getRunwayTier_Reversed(runwayHours) ==
  IF runwayHours > RUNWAY_TIERS.normal THEN "normal"
  ELSE IF runwayHours < RUNWAY_TIERS.low_compute THEN "low_compute"
  ELSE IF runwayHours > RUNWAY_TIERS.critical THEN "critical"
  ELSE "dead"

getRunwayTier(runwayHours) ==
  IF runwayHours > RUNWAY_TIERS.normal THEN "normal"
  ELSE IF runwayHours > RUNWAY_TIERS.low_compute THEN "low_compute"
  ELSE IF runwayHours > RUNWAY_TIERS.critical THEN "critical"
  ELSE "dead"

\* the running total is replaced by the cost of the turn
recordTurnCost_Overwrite(total, cost) == String(cost)

\* total_spent_cents after recordTurnCost(db, turnId, costCents)
recordTurnCost(total, cost) == String(Number(total) + cost)

\* if (!db.getKV("start_time")) db.setKV("start_time", now)
StartTimeAtWake(st, clock) == IF st = NoStart THEN << clock >> ELSE st

\* Amounts that are not whole numbers (hours, cents per hour) are exact
\* fractions << numerator, denominator >> in lowest terms, denominator > 0.
RECURSIVE GCD(_, _)
GCD(a, b) == IF b = 0 THEN a ELSE GCD(b, a % b)

Abs(a) == IF a < 0 THEN 0 - a ELSE a

Frac(n, d) ==
  LET g == GCD(Abs(n), d) IN << n \div g, d \div g >>

Whole(n) == << n, 1 >>
FracLess(a, b) == a[1] * b[2] < b[1] * a[2]
FracLeq(a, b) == a[1] * b[2] <= b[1] * a[2]
FracMax(a, b) == IF FracLess(a, b) THEN b ELSE a
FracAdd(a, b) == Frac(a[1] * b[2] + b[1] * a[2], a[2] * b[2])
FracSub(a, b) == Frac(a[1] * b[2] - b[1] * a[2], a[2] * b[2])
FracMul(a, b) == Frac(a[1] * b[1], a[2] * b[2])
\* a / b for b > 0
FracDiv(a, b) == Frac(a[1] * b[2], a[2] * b[1])

Infinity == << 1, 0 >>
HOURS_PER_MONTH == 720
MIN_UPTIME == Frac(1, 1000)
CHILD_SHARE == Frac(8, 10)

\* getUptimeHours: 0 without a start_time, else at least 0.001 hours
getUptimeHours(st, clock) ==
  IF st = NoStart THEN Whole(0)
  ELSE FracMax(Frac(clock - st[1], 60), MIN_UPTIME)

calculateBurnRate(spent, st, clock) ==
  LET uptimeHours == getUptimeHours(st, clock) IN
    IF FracLeq(uptimeHours, Whole(0)) THEN Whole(0)
    ELSE FracDiv(Whole(Number(spent)), uptimeHours)

calculateEarnRate(earned, st, clock) ==
  LET uptimeHours == getUptimeHours(st, clock) IN
    IF FracLeq(uptimeHours, Whole(0)) THEN Whole(0)
    ELSE FracDiv(Whole(Number(earned)), uptimeHours)

calculateRunway(balance, burnRate) ==
  IF FracLeq(burnRate, Whole(0)) THEN Infinity
  ELSE FracDiv(Whole(balance), burnRate)

\* the balance is used as computed
ClampBalance_None(balance) == balance

\* Math.max(balanceCents, 0)
ClampBalance(balance) == IF balance > 0 THEN balance ELSE 0

getEconomicsSnapshot(spent, earned, budget, st, clock) ==
  LET burnRate == calculateBurnRate(spent, st, clock)
      earnRate == calculateEarnRate(earned, st, clock)
      totalSpent == Number(spent)
      totalEarned == Number(earned)
      balance == budget - totalSpent + totalEarned
      runwayHours == calculateRunway(ClampBalance(balance), burnRate)
  IN [kind |-> "snapshot",
      budgetCents |-> budget,
      totalSpentCents |-> totalSpent,
      totalEarnedCents |-> totalEarned,
      balanceCents |-> ClampBalance(balance),
      burnRatePerHour |-> burnRate,
      earnRatePerHour |-> earnRate,
      earnBurnRatio |->
        IF FracLess(Whole(0), burnRate) THEN FracDiv(earnRate, burnRate)
        ELSE Whole(0),
      runwayHours |->
        IF runwayHours = Infinity THEN Whole(UNLIMITED_RUNWAY)
        ELSE runwayHours]

\* a balance equal to the threshold counts as insufficient
Insufficient_AtEqual(balance, threshold) ==
  FracLeq(Whole(balance), threshold)

\* if (balanceCents < spawnThreshold)
Insufficient(balance, threshold) == FracLess(Whole(balance), threshold)

checkSpawnGate(spent, earned, budget, st, clock, numChildren) ==
  LET burnRate == calculateBurnRate(spent, st, clock)
      balance == ClampBalance(budget - Number(spent) + Number(earned))
      ownMonthlyCost == FracMul(burnRate, Whole(HOURS_PER_MONTH))
      childMonthlyCost == FracMul(ownMonthlyCost, CHILD_SHARE)
      spawnThreshold ==
        FracAdd(ownMonthlyCost, FracMul(Whole(numChildren), childMonthlyCost))
      deficit == FracMax(FracSub(spawnThreshold, Whole(balance)), Whole(0))
      common == [kind |-> "gate",
                 numChildren |-> numChildren,
                 balanceCents |-> balance,
                 ownMonthlyCost |-> ownMonthlyCost,
                 childMonthlyCost |-> childMonthlyCost,
                 spawnThreshold |-> spawnThreshold]
  IN IF Insufficient(balance, spawnThreshold)
     THEN common @@ [canSpawn |-> FALSE, deficit |-> deficit]
     ELSE common @@ [canSpawn |-> TRUE, deficit |-> Whole(0)]

NoResult == [kind |-> "none"]

\* normal > low_compute > critical > dead
TierRank(t) ==
  CASE t = "normal" -> 3 [] t = "low_compute" -> 2 [] t = "critical" -> 1
    [] OTHER -> 0

\* ------------------------------------------------------------------------
\* JSON texts and values
\* ------------------------------------------------------------------------
QUOTE == "\""
BACKSLASH == "\\"
DigitChars == { DIGITS[i] : i \in 1..10 }

\* a JSON value: t is the type, n the number, s the characters of a string,
\* kids the members of an object or the elements of an array (k is the
\* member's key and << >> for an element)
JValue(t, n, s, kids) == [t |-> t, n |-> n, s |-> s, kids |-> kids]
JUndefined == JValue("undefined", 0, << >>, << >>)
JNull == JValue("null", 0, << >>, << >>)
JNumber(n) == JValue("number", n, << >>, << >>)
JString(s) == JValue("string", 0, s, << >>)
JArray(kids) == JValue("array", 0, << >>, kids)
JObject(kids) == JValue("object", 0, << >>, kids)
Kid(k, v) == [k |-> k, v |-> v]

\* typeof v === "object", Array.isArray(v), and v in a condition
IsTypeofObject(v) == v.t \in {"null", "array", "object"}
IsArray(v) == v.t = "array"
Truthy(v) ==
  CASE v.t \in {"undefined", "null"} -> FALSE
    [] v.t = "number" -> v.n # 0
    [] v.t = "string" -> v.s # << >>
    [] OTHER -> TRUE

\* obj[k] = v: a key already present keeps its place and takes the value
SetMember(kids, k, v) ==
  IF \E i \in 1..Len(kids) : kids[i].k = k
    THEN [i \in 1..Len(kids) |-> IF kids[i].k = k THEN Kid(k, v) ELSE kids[i]]
    ELSE Append(kids, Kid(k, v))

\* result of a parsing step: the value and the position after it
Parsed(v, pos) == [ok |-> TRUE, val |-> v, pos |-> pos]
SyntaxError == [ok |-> FALSE, val |-> JUndefined, pos |-> 0]

RECURSIVE SkipWs(_, _)
SkipWs(raw, i) ==
  IF i <= Len(raw) /\ raw[i] \in WHITESPACE THEN SkipWs(raw, i + 1) ELSE i

\* the characters of a string up to its closing quote; a backslash escapes a
\* quote or a backslash
RECURSIVE ScanString(_, _, _)
ScanString(raw, i, acc) ==
  IF i > Len(raw) THEN SyntaxError
  ELSE IF raw[i] = QUOTE THEN Parsed(JString(acc), i + 1)
  ELSE IF raw[i] = BACKSLASH
    THEN IF i + 1 <= Len(raw) /\ raw[i + 1] \in {QUOTE, BACKSLASH}
           THEN ScanString(raw, i + 2, Append(acc, raw[i + 1]))
           ELSE SyntaxError
  ELSE IF raw[i] = "\n" THEN SyntaxError
  ELSE ScanString(raw, i + 1, Append(acc, raw[i]))

RECURSIVE DigitsEnd(_, _)
DigitsEnd(raw, i) ==
  IF i <= Len(raw) /\ raw[i] \in DigitChars THEN DigitsEnd(raw, i + 1) ELSE i

\* a natural number without a leading zero
ScanNumber(raw, i) ==
  LET j == DigitsEnd(raw, i) IN
    IF raw[i] = "0" /\ j > i + 1 THEN SyntaxError
    ELSE Parsed(JNumber(NumberOf(SubSeq(raw, i, j - 1))), j)

NULL_TEXT == << "n", "u", "l", "l" >>

ScanNull(raw, i) ==
  IF i + 3 <= Len(raw) /\ SubSeq(raw, i, i + 3) = NULL_TEXT
    THEN Parsed(JNull, i + 4)
    ELSE SyntaxError

RECURSIVE ParseValue(_, _)
RECURSIVE ParseMembers(_, _, _)
RECURSIVE ParseElements(_, _, _)

ParseValue(raw, i0) ==
  LET i == SkipWs(raw, i0) IN
    IF i > Len(raw) THEN SyntaxError
    ELSE IF raw[i] = "{"
      THEN LET j == SkipWs(raw, i + 1) IN
             IF j <= Len(raw) /\ raw[j] = "}"
               THEN Parsed(JObject(<< >>), j + 1)
               ELSE ParseMembers(raw, j, << >>)
    ELSE IF raw[i] = "["
      THEN LET j == SkipWs(raw, i + 1) IN
             IF j <= Len(raw) /\ raw[j] = "]"
               THEN Parsed(JArray(<< >>), j + 1)
               ELSE ParseElements(raw, j, << >>)
    ELSE IF raw[i] = QUOTE THEN ScanString(raw, i + 1, << >>)
    ELSE IF raw[i] \in DigitChars THEN ScanNumber(raw, i)
    ELSE IF raw[i] = "n" THEN ScanNull(raw, i)
    ELSE SyntaxError

\* the members of an object from the key at i on
ParseMembers(raw, i, acc) ==
  IF i > Len(raw) \/ raw[i] # QUOTE THEN SyntaxError
  ELSE
    LET key == ScanString(raw, i + 1, << >>) IN
      IF ~key.ok THEN SyntaxError
      ELSE
        LET c == SkipWs(raw, key.pos) IN
          IF c > Len(raw) \/ raw[c] # ":" THEN SyntaxError
          ELSE
            LET v == ParseValue(raw, c + 1) IN
              IF ~v.ok THEN SyntaxError
              ELSE
                LET e == SkipWs(raw, v.pos)
                    kids == SetMember(acc, key.val.s, v.val)
                IN  IF e > Len(raw) THEN SyntaxError
                    ELSE IF raw[e] = "}" THEN Parsed(JObject(kids), e + 1)
                    ELSE IF raw[e] = ","
                      THEN ParseMembers(raw, SkipWs(raw, e + 1), kids)
                    ELSE SyntaxError

\* the elements of an array from the value at i on
ParseElements(raw, i, acc) ==
  LET v == ParseValue(raw, i) IN
    IF ~v.ok THEN SyntaxError
    ELSE
      LET e == SkipWs(raw, v.pos)
          kids == Append(acc, Kid(<< >>, v.val))
      IN  IF e > Len(raw) THEN SyntaxError
          ELSE IF raw[e] = "]" THEN Parsed(JArray(kids), e + 1)
          ELSE IF raw[e] = "," THEN ParseElements(raw, e + 1, kids)
          ELSE SyntaxError

\* JSON.parse(raw): the whole text is one value
JSONParse(raw) ==
  LET r == ParseValue(raw, 1) IN
    IF r.ok /\ SkipWs(raw, r.pos) > Len(raw) THEN r ELSE SyntaxError

RECURSIVE Escape(_)
Escape(s) ==
  IF s = << >> THEN << >>
  ELSE IF Head(s) \in {QUOTE, BACKSLASH}
    THEN << BACKSLASH, Head(s) >> \o Escape(Tail(s))
    ELSE << Head(s) >> \o Escape(Tail(s))

Quoted(s) == << QUOTE >> \o Escape(s) \o << QUOTE >>

\* JSON.stringify(v): no whitespace, members in the object's order
RECURSIVE JSONStringify(_)
RECURSIVE StringifyKids(_, _, _)

JSONStringify(v) ==
  CASE v.t = "number" -> String(v.n)
    [] v.t = "string" -> Quoted(v.s)
    [] v.t = "array" ->
         << "[" >> \o StringifyKids(v.kids, 1, FALSE) \o << "]" >>
    [] v.t = "object" ->
         << "{" >> \o StringifyKids(v.kids, 1, TRUE) \o << "}" >>
    [] OTHER -> NULL_TEXT

StringifyKids(kids, i, keyed) ==
  IF i > Len(kids) THEN << >>
  ELSE (IF i > 1 THEN << "," >> ELSE << >>)
       \o (IF keyed THEN Quoted(kids[i].k) \o << ":" >> ELSE << >>)
       \o JSONStringify(kids[i].v)
       \o StringifyKids(kids, i + 1, keyed)

\* ------------------------------------------------------------------------
\* Inference client, Anthropic protocol
\* ------------------------------------------------------------------------
RAW_KEY == << "_", "r", "a", "w" >>
VALUE_KEY == << "v", "a", "l", "u", "e" >>
UNKNOWN_TOOL_CALL == "unknown_tool_call"
CONTINUE_TEXT ==
  << "C", "o", "n", "t", "i", "n", "u", "e", "." >>

parseToolArguments_Wrapped(raw) ==
  LET parsed == JSONParse(raw) IN
    IF ~parsed.ok THEN JObject(<< Kid(RAW_KEY, JString(raw)) >>)
    ELSE JObject(<< Kid(VALUE_KEY, parsed.val) >>)

parseToolArguments(raw) ==
  LET parsed == JSONParse(raw) IN
    IF ~parsed.ok THEN JObject(<< Kid(RAW_KEY, JString(raw)) >>)
    ELSE IF Truthy(parsed.val) /\ IsTypeofObject(parsed.val)
              /\ ~IsArray(parsed.val)
      THEN parsed.val
    ELSE JObject(<< Kid(VALUE_KEY, parsed.val) >>)

\* ChatMessage; a field the message lacks is the empty text or list
ChatMessage(role, content, tool_calls, tool_call_id) ==
  [role |-> role, content |-> content, tool_calls |-> tool_calls,
   tool_call_id |-> tool_call_id]

\* InferenceToolCall
ToolCall(id, name, arguments) ==
  [id |-> id, type |-> "function",
   function |-> [name |-> name, arguments |-> arguments]]

\* content blocks of the Anthropic protocol
ContentBlock(type, text, id, name, input, tool_use_id, content) ==
  [type |-> type, text |-> text, id |-> id, name |-> name, input |-> input,
   tool_use_id |-> tool_use_id, content |-> content]
TextBlock(text) == ContentBlock("text", text, "", "", JUndefined, "", << >>)
ToolUseBlock(id, name, input) ==
  ContentBlock("tool_use", << >>, id, name, input, "", << >>)
ToolResultBlock(tool_use_id, content) ==
  ContentBlock("tool_result", << >>, "", "", JUndefined, tool_use_id, content)

\* a message of the Anthropic protocol: its content is a text or a list of
\* blocks
TextMessage(role, text) ==
  [role |-> role, isBlocks |-> FALSE, text |-> text, blocks |-> << >>]
BlockMessage(role, blocks) ==
  [role |-> role, isBlocks |-> TRUE, text |-> << >>, blocks |-> blocks]

RECURSIVE Join(_, _)
Join(parts, sep) ==
  IF parts = << >> THEN << >>
  ELSE IF Len(parts) = 1 THEN parts[1]
  ELSE parts[1] \o sep \o Join(Tail(parts), sep)

RECURSIVE ToolUseBlocksOf(_)
ToolUseBlocksOf(tool_calls) ==
  IF tool_calls = << >> THEN << >>
  ELSE << ToolUseBlock(Head(tool_calls).id, Head(tool_calls).function.name,
                       parseToolArguments(
                         Head(tool_calls).function.arguments)) >>
       \o ToolUseBlocksOf(Tail(tool_calls))

AssistantContent(msg) ==
  LET content ==
        (IF msg.content # << >> THEN << TextBlock(msg.content) >> ELSE << >>)
        \o ToolUseBlocksOf(msg.tool_calls)
  IN  IF Len(content) = 0 THEN << TextBlock(<< >>) >> ELSE content

\* msg.tool_call_id || "unknown_tool_call"
ToolResultId(tool_call_id) ==
  IF tool_call_id # "" THEN tool_call_id ELSE UNKNOWN_TOOL_CALL

RECURSIVE SystemPartsOf(_)
SystemPartsOf(msgs) ==
  IF msgs = << >> THEN << >>
  ELSE (IF Head(msgs).role = "system" /\ Head(msgs).content # << >>
          THEN << Head(msgs).content >> ELSE << >>)
       \o SystemPartsOf(Tail(msgs))

RECURSIVE TransformedOf(_)
TransformedOf(msgs) ==
  IF msgs = << >> THEN << >>
  ELSE
    LET msg == Head(msgs) IN
      (CASE msg.role = "user" -> << TextMessage("user", msg.content) >>
         [] msg.role = "assistant" ->
              << BlockMessage("assistant", AssistantContent(msg)) >>
         [] msg.role = "tool" ->
              << BlockMessage("user",
                   << ToolResultBlock(ToolResultId(msg.tool_call_id),
                                      msg.content) >>) >>
         [] OTHER -> << >>)
      \o TransformedOf(Tail(msgs))

\* the system text is << >> where the code leaves it undefined (a joined
\* text is never empty)
transformMessagesForAnthropic(msgs) ==
  [system |-> Join(SystemPartsOf(msgs), << "\n", "\n" >>),
   messages |-> TransformedOf(msgs)]

\* the part of the request body the messages decide
AnthropicBody(msgs) ==
  LET transformed == transformMessagesForAnthropic(msgs) IN
    [kind |-> "body",
     system |-> transformed.system,
     messages |->
       IF Len(transformed.messages) > 0 THEN transformed.messages
       ELSE << TextMessage("user", CONTINUE_TEXT) >>]

\* reason is << >> where it is not a string, << text >> where it is one
normalizeAnthropicFinishReason(reason) ==
  IF reason = << >> THEN "stop"
  ELSE IF reason[1] = "tool_use" THEN "tool_calls"
  ELSE reason[1]

\* content.filter((c) => c?.type === type)
RECURSIVE Filter(_, _)
Filter(blocks, type) ==
  IF blocks = << >> THEN << >>
  ELSE (IF Head(blocks).type = type THEN << Head(blocks) >> ELSE << >>)
       \o Filter(Tail(blocks), type)

InputOrEmpty(input) == IF Truthy(input) THEN input ELSE JObject(<< >>)

RECURSIVE NormalizedCalls(_)
NormalizedCalls(toolUseBlocks) ==
  IF toolUseBlocks = << >> THEN << >>
  ELSE << ToolCall(Head(toolUseBlocks).id, Head(toolUseBlocks).name,
                   JSONStringify(InputOrEmpty(Head(toolUseBlocks).input))) >>
       \o NormalizedCalls(Tail(toolUseBlocks))

RECURSIVE TextsOf(_)
TextsOf(textBlocks) ==
  IF textBlocks = << >> THEN << >>
  ELSE << Head(textBlocks).text >> \o TextsOf(Tail(textBlocks))

\* what chatViaAnthropic makes of the response of the endpoint
AnthropicResponse(resp) ==
  IF ~resp.ok THEN [kind |-> "error"]
  ELSE
    LET calls == NormalizedCalls(Filter(resp.content, "tool_use"))
        textContent == Trim(Join(TextsOf(Filter(resp.content, "text")),
                                 << "\n" >>))
    IN  IF textContent = << >> /\ Len(calls) = 0
          THEN [kind |-> "error"]
          ELSE [kind |-> "response",
                message |->
                  ChatMessage("assistant", textContent, calls, ""),
                toolCalls |-> calls,
                finishReason |->
                  normalizeAnthropicFinishReason(resp.stop_reason)]

\* ------------------------------------------------------------------------
\* runAgentLoop
\* ------------------------------------------------------------------------
guardVars == << lastToolName, consecutiveSameTool, calledOnceTools,
                executedCommands >>
turnVars ==
  << respLen, finishReason, toolCalls, callCount, costCents, responseCost,
     tier >>
histVars == << endReason, endTime, persistedTurns, runFp, runLen, failStreak,
               bootInvoked, loopInvoked, turnExecs >>

NoCalls == [k \in GatedKeys |-> 0]

\* no variable of process.env is set
NoEnv == [OPENAI_API_KEY |-> FALSE, MOAT_GATEWAY_URL |-> FALSE]

\* a run where the bootstrap tools return results, the backend reports no
\* cost, both balance queries answer, and the turns table is not followed
Plain ==
  [bootErrors |-> FALSE, backendCosts |-> {<< >>}, counting |-> FALSE,
   credits |-> {<< 500 >>}, usdc |-> {<< 0 >>},
   messages |-> 0, history |-> FALSE, branchFailures |-> FALSE]

NotQueried == [asked |-> FALSE, credits |-> << >>, usdc |-> << >>]
NoTurn == [inputSource |-> "none", costCents |-> 0]

LoopInitIn(cat, sizes, track, cs, st, penv, scen) ==
  /\ pc = "stopped"
  /\ now = 0
  /\ agentState = "sleeping"
  /\ sleep_until = 0
  /\ lowComputeMode = FALSE
  /\ consecutiveErrors = 0
  /\ turnsThisWake = 0
  /\ lastToolName = NoFingerprint
  /\ consecutiveSameTool = 0
  /\ calledOnceTools = {}
  /\ executedCommands = {}
  /\ bootIdx = 1
  /\ pendingInput = "none"
  /\ currentInput = "none"
  /\ respLen = 0
  /\ finishReason = "stop"
  /\ toolCalls = << >>
  /\ callCount = 0
  /\ tier = "none"
  /\ catalog = cat
  /\ reqSizes = sizes
  /\ tracking = track
  /\ costs = cs
  /\ costCents = 0
  /\ start_time = st
  /\ total_spent_cents = << >>
  /\ endReason = "none"
  /\ endTime = 0
  /\ persistedTurns = 0
  /\ runFp = NoFingerprint
  /\ runLen = 0
  /\ failStreak = 0
  /\ bootInvoked = {}
  /\ loopInvoked = NoCalls
  /\ turnExecs = 0
  /\ earlier = {}
  /\ processEnv = penv
  /\ scenario = scen
  /\ financial = [creditsCents |-> 0, usdcBalance |-> 0]
  /\ queried = NotQueried
  /\ bootstrapResults = << >>
  /\ bootOutcomes = << >>
  /\ responseCost = << >>
  /\ lastTurn = NoTurn
  /\ inboxArrived = 0
  /\ inboxProcessed = {}
  /\ pendingMessages = {}
  /\ currentMessages = {}
  /\ turnInputs = {}
  /\ droppedMessages = {}
  /\ turnCount = 0
  /\ snapshots = 0
  /\ last_economics_snapshot = NoResult
  /\ snapshotOutcome = "none"

LoopInitOf(cat, sizes, track, cs, st) ==
  LoopInitIn(cat, sizes, track, cs, st, NoEnv, Plain)

\* a backend whose responses carry up to MaxReq tool calls and cost nothing
LoopInit(cat) == LoopInitOf(cat, 0..MaxReq, FALSE, {0}, START_EARLIER)

EconIdle ==
  budgetCents = 0 /\ total_earned_cents = << >> /\ econResult = NoResult

AnthropicIdle ==
  /\ messages = << >>
  /\ body = NoResult
  /\ data = NoResult
  /\ response = NoResult

ClientIdle ==
  client = NoResult /\ modeCalls = << >> /\ chatRequest = NoResult

ScanIdle ==
  /\ scanPc = << >> /\ scanReturn = << >> /\ lastScanResult = << >>
  /\ scanClock = 0 /\ fanOuts = << >> /\ landscapeSnapshots = << >>

SocialIdle ==
  /\ social = FALSE /\ socialPc = "idle" /\ pollCursor = << >>
  /\ inbox_seen = {} /\ inbox_messages = << >>
  /\ social_inbox_cursor = << >> /\ taskRuns = 0
  /\ taskResult = [kind |-> "none"]

FnIdle ==
  /\ r1 = 0 /\ r2 = 0 /\ t1 = "none" /\ t2 = "none"
  /\ EconIdle
  /\ AnthropicIdle
  /\ ClientIdle
  /\ ScanIdle
  /\ SocialIdle

\* the session stops: the while loop is left and runAgentLoop returns
Stop(reason) ==
  /\ pc' = "stopped"
  /\ endReason' = reason
  /\ endTime' = now

\* executor invocations of the session for a gated key
Invocations(k) == (IF k \in bootInvoked THEN 1 ELSE 0) + loopInvoked[k]

InvokedKeys == { k \in GatedKeys : Invocations(k) >= 1 }

\* the set of the previous session is carried over
FreshOnceTools_Kept == calledOnceTools

\* const calledOnceTools = new Set<string>()
FreshOnceTools == {}

DIRECT_CREDITS == 99999

\* a failed query counts as the credits of the direct mode
QueryValue_Direct(outcome) ==
  IF outcome = << >> THEN DIRECT_CREDITS ELSE outcome[1]

\* the value a balance query leaves: it starts at 0 and a query that throws
\* (outcome << >>) is caught
QueryValue(outcome) == IF outcome = << >> THEN 0 ELSE outcome[1]

getFinancialState(cq, uq) ==
  [creditsCents |-> QueryValue(cq), usdcBalance |-> QueryValue(uq)]

\* financial state at wake-up: no query when OPENAI_API_KEY is set
RefreshAtWake ==
  IF processEnv.OPENAI_API_KEY
  THEN /\ financial' = [creditsCents |-> DIRECT_CREDITS, usdcBalance |-> 0]
       /\ queried' = NotQueried
  ELSE \E cq \in scenario.credits, uq \in scenario.usdc :
         /\ financial' = getFinancialState(cq, uq)
         /\ queried' = [asked |-> TRUE, credits |-> cq, usdc |-> uq]

\* financial state refreshed at the top of an iteration
RefreshInLoop ==
  IF processEnv.OPENAI_API_KEY
  THEN /\ financial' = [creditsCents |-> DIRECT_CREDITS,
                        usdcBalance |-> financial.usdcBalance]
       /\ queried' = NotQueried
  ELSE \E cq \in scenario.credits, uq \in scenario.usdc :
         /\ financial' = getFinancialState(cq, uq)
         /\ queried' = [asked |-> TRUE, credits |-> cq, usdc |-> uq]

\* output text of a bootstrap step: "name: ERROR: ..." or "name: result"
Output(name, isError) == << name, IF isError THEN "ERROR" ELSE "result" >>

\* a step that throws leaves no text
AfterThrow_Silent(results, name) == results

\* the catch block of a bootstrap step
AfterThrow(results, name) == Append(results, Output(name, TRUE))

\* the synthetic turn of a bootstrap step
SyntheticTurn == [inputSource |-> "system", costCents |-> 0]

\* turns are counted up to MaxTurnCount where the run follows the table
CountTurn ==
  IF scenario.counting
  THEN turnCount < MaxTurnCount /\ turnCount' = turnCount + 1
  ELSE turnCount' = turnCount

\* an external wake signal starts runAgentLoop: per-session state is
\* declared afresh, AgentState goes waking -> running, the stale sleep timer
\* is cleared
Wake ==
  /\ pc = "stopped"
  /\ pc' = "bootstrap"
  /\ agentState' = "running"
  /\ sleep_until' = 0
  /\ consecutiveErrors' = 0
  /\ turnsThisWake' = 0
  /\ lastToolName' = NoFingerprint
  /\ consecutiveSameTool' = 0
  /\ calledOnceTools' = FreshOnceTools
  /\ executedCommands' = {}
  /\ bootIdx' = 1
  /\ pendingInput' = "none"
  /\ currentInput' = "none"
  /\ respLen' = 0
  /\ finishReason' = "stop"
  /\ toolCalls' = << >>
  /\ callCount' = 0
  /\ tier' = "none"
  /\ endReason' = "none"
  /\ endTime' = 0
  /\ persistedTurns' = 0
  /\ runFp' = NoFingerprint
  /\ runLen' = 0
  /\ failStreak' = 0
  /\ bootInvoked' = {}
  /\ loopInvoked' = NoCalls
  /\ turnExecs' = 0
  /\ earlier' = IF tracking THEN earlier \cup InvokedKeys ELSE earlier
  /\ start_time' = StartTimeAtWake(start_time, now)
  /\ costCents' = 0
  /\ responseCost' = << >>
  /\ RefreshAtWake
  /\ bootstrapResults' = << >>
  /\ bootOutcomes' = << >>
  /\ pendingMessages' = {}
  /\ currentMessages' = {}
  /\ UNCHANGED << now, lowComputeMode, inputVars, total_spent_cents, dbVars,
                  inboxDb, turnInputs, droppedMessages, fnVars >>

\* pendingInput is built once the last bootstrap step is done
AfterBootstrapStep ==
  /\ bootIdx' = bootIdx + 1
  /\ IF bootIdx = Len(bootstrapSteps)
     THEN pc' = "top" /\ pendingInput' = "wakeup"
     ELSE pc' = pc /\ pendingInput' = pendingInput

\* the synthetic turns are left out of the count
AfterBootstrapTurn_Uncounted(turns) == turns

\* turnsThisWake++ after the synthetic turn is inserted
AfterBootstrapTurn(turns) == turns + 1

\* one bootstrap step whose executeTool call returns (a result or an error
\* result): recorded as a synthetic turn
BootstrapStep ==
  /\ pc = "bootstrap"
  /\ bootIdx <= Len(bootstrapSteps)
  /\ LET step == bootstrapSteps[bootIdx] IN
       /\ calledOnceTools' = TrackOnce(step.name, calledOnceTools)
       /\ bootInvoked' = bootInvoked \cup {GateKey(step)}
       /\ \E isError \in (IF scenario.bootErrors THEN BOOLEAN ELSE {FALSE}) :
            /\ bootstrapResults' =
                 Append(bootstrapResults, Output(step.name, isError))
            /\ bootOutcomes' =
                 Append(bootOutcomes, IF isError THEN "error" ELSE "result")
  /\ turnsThisWake' = AfterBootstrapTurn(turnsThisWake)
  /\ persistedTurns' = persistedTurns + 1
  /\ lastTurn' = SyntheticTurn
  /\ CountTurn
  /\ AfterBootstrapStep
  /\ UNCHANGED << refreshVars, snapshots, last_economics_snapshot,
                  snapshotOutcome, inboxVars >>
  /\ UNCHANGED << now, agentState, sleep_until, lowComputeMode,
                  consecutiveErrors, lastToolName, consecutiveSameTool,
                  executedCommands, currentInput, turnVars, inputVars,
                  wakeVars, total_spent_cents, endReason, endTime, runFp,
                  runLen, failStreak, loopInvoked, turnExecs, fnVars >>

\* one bootstrap step whose executeTool call throws: logged only
BootstrapThrow ==
  /\ pc = "bootstrap"
  /\ bootIdx <= Len(bootstrapSteps)
  /\ bootInvoked' = bootInvoked \cup {GateKey(bootstrapSteps[bootIdx])}
  /\ bootstrapResults' =
       AfterThrow(bootstrapResults, bootstrapSteps[bootIdx].name)
  /\ bootOutcomes' = Append(bootOutcomes, "thrown")
  /\ AfterBootstrapStep
  /\ UNCHANGED << refreshVars, dbVars, inboxVars >>
  /\ UNCHANGED << now, agentState, sleep_until, lowComputeMode,
                  consecutiveErrors, turnsThisWake, guardVars, currentInput,
                  turnVars, inputVars, wakeVars, total_spent_cents, endReason,
                  endTime, persistedTurns, runFp, runLen, failStreak,
                  loopInvoked, turnExecs, fnVars >>

\* the state is set to running whatever the tier
TierState_Running(tr) == "running"

\* db.setAgentState of the tier handling
TierState(tr) ==
  CASE tr = "critical" -> "critical"
    [] tr = "low_compute" -> "low_compute"
    [] OTHER -> "running"

\* the dead tier never stops the session
TierStops_Never(tr) == FALSE

\* if (tier === "dead")
TierStops(tr) == tr = "dead"

INBOX_PULL_LIMIT == 5

\* the inbox is read in every iteration
PullAllowed_Always(pending) == TRUE

\* if (!pendingInput)
PullAllowed(pending) == pending = "none"

\* db.getUnprocessedInboxMessages(limit): as many unprocessed messages as
\* the limit allows, whichever the database picks
Unprocessed(arrived, processed) == (1..arrived) \ processed

getUnprocessedInboxMessages(limit, arrived, processed) ==
  LET open == Unprocessed(arrived, processed) IN
    { S \in SUBSET open : Cardinality(S) = Min(limit, Cardinality(open)) }

\* the sets of messages an iteration may pull: none if an input is pending
InboxPulls(pending, arrived, processed) ==
  IF PullAllowed(pending)
  THEN getUnprocessedInboxMessages(INBOX_PULL_LIMIT, arrived, processed)
  ELSE {{}}

\* a message is inserted into the inbox while the agent runs or sleeps
InboxArrives ==
  /\ inboxArrived < scenario.messages
  /\ inboxArrived' = inboxArrived + 1
  /\ UNCHANGED << pc, now, agentState, sleep_until, lowComputeMode,
                  consecutiveErrors, turnsThisWake, guardVars, bootIdx,
                  pendingInput, currentInput, turnVars, inputVars, wakeVars,
                  histVars, refreshVars, bootVars, dbVars, total_spent_cents,
                  inboxProcessed, pendingMessages, currentMessages,
                  turnInputs, droppedMessages, fnVars >>

\* the pending input stays in place after the iteration captured it
ClearPending_Kept(value, empty) == value

\* pendingInput = undefined, once currentInput holds the value
ClearPending(value, empty) == empty

\* top of an iteration up to the inference call: sleep_until check, tier
\* evaluation, low-compute switch, pending input captured and cleared
LoopTop ==
  /\ pc = "top"
  /\ IF sleep_until # 0 /\ sleep_until > now
     THEN /\ Stop("sleep_until")
          /\ UNCHANGED << agentState, lowComputeMode, pendingInput,
                          currentInput, tier, refreshVars, inboxProcessed,
                          pendingMessages, currentMessages >>
     ELSE \E tr \in SurvivalTiers,
             pulled \in InboxPulls(pendingInput, inboxArrived,
                                  inboxProcessed) :
            LET input == IF pulled # {} THEN "agent" ELSE pendingInput
                folded == IF pulled # {} THEN pulled ELSE pendingMessages
            IN
            /\ inboxProcessed' = inboxProcessed \cup pulled
            /\ RefreshInLoop
            /\ tier' = tr
            /\ IF TierStops(tr)
               THEN /\ agentState' = "dead"
                    /\ Stop("dead")
                    /\ pendingInput' = input
                    /\ pendingMessages' = folded
                    /\ UNCHANGED << lowComputeMode, currentInput,
                                    currentMessages >>
               ELSE /\ agentState' = TierState(tr)
                    /\ lowComputeMode' = (tr \in {"critical", "low_compute"})
                    /\ currentInput' = input
                    /\ currentMessages' = folded
                    /\ pendingInput' = ClearPending(input, "none")
                    /\ pendingMessages' = ClearPending(folded, {})
                    /\ pc' = "infer"
                    /\ UNCHANGED << endReason, endTime >>
  /\ UNCHANGED << now, sleep_until, consecutiveErrors, turnsThisWake,
                  guardVars, bootIdx, respLen, finishReason, toolCalls,
                  callCount, costCents, inputVars, wakeVars,
                  total_spent_cents, persistedTurns, runFp, runLen,
                  failStreak, bootInvoked, loopInvoked, turnExecs, fnVars >>
  /\ UNCHANGED << bootVars, responseCost, dbVars, inboxArrived, turnInputs,
                  droppedMessages >>

\* the cost of the turn is the estimate in place of the backend's figure
ActualCost_Estimate(rc, estimate) == estimate

\* response.costCents ?? turn.costCents
ActualCost(rc, estimate) == IF rc # << >> THEN rc[1] ELSE estimate

\* inference.chat returns a response; the turn object is created.  The
\* backends report "tool_calls" with a response that carries tool calls;
\* the controller reads the finish reason only when there are none.
InferReturn ==
  /\ pc = "infer"
  /\ \E n \in reqSizes, fr \in FinishReasons :
       /\ (n > 0) = (fr = "tool_calls")
       /\ respLen' = n
       /\ finishReason' = fr
  /\ \E c \in costs, rc \in scenario.backendCosts :
       /\ Number(total_spent_cents) + ActualCost(rc, c) <= MaxSpent
       /\ costCents' = c
       /\ responseCost' = rc
  /\ toolCalls' = << >>
  /\ callCount' = 0
  /\ pc' = "tools"
  /\ UNCHANGED << refreshVars, bootVars, dbVars, inboxVars >>
  /\ UNCHANGED << now, agentState, sleep_until, lowComputeMode,
                  consecutiveErrors, turnsThisWake, guardVars, bootIdx,
                  pendingInput, currentInput, tier, inputVars, wakeVars,
                  total_spent_cents, histVars, fnVars >>

\* a record of message ids, kept where the run follows it
Followed(record, ids) ==
  IF scenario.history THEN record \cup ids ELSE record

\* the iteration's block is left: response, turn and currentInput go out of
\* scope
LeaveIteration ==
  /\ respLen' = 0
  /\ finishReason' = "stop"
  /\ toolCalls' = << >>
  /\ callCount' = 0
  /\ costCents' = 0
  /\ responseCost' = << >>
  /\ currentInput' = "none"
  /\ currentMessages' = {}
  /\ tier' = "none"
  /\ turnExecs' = 0

\* the catch block of the iteration
Catch ==
  /\ LeaveIteration
  /\ consecutiveErrors' = ErrorsAfterThrow(consecutiveErrors)
  /\ failStreak' = failStreak + 1
  /\ droppedMessages' = Followed(droppedMessages, currentMessages)
  /\ IF ErrorLimitReached(consecutiveErrors')
     THEN /\ agentState' = "sleeping"
          /\ sleep_until' = now + ERROR_COOLDOWN
          /\ Stop("errors")
     ELSE /\ pc' = "top"
          /\ UNCHANGED << agentState, sleep_until, endReason, endTime >>

\* inference.chat throws
InferThrow ==
  /\ pc = "infer"
  /\ Catch
  /\ UNCHANGED << now, lowComputeMode, turnsThisWake, guardVars, bootIdx,
                  pendingInput, inputVars, wakeVars, total_spent_cents,
                  persistedTurns, runFp, runLen, bootInvoked, loopInvoked,
                  fnVars >>
  /\ UNCHANGED << refreshVars, bootVars, dbVars, inboxDb, pendingMessages,
                  turnInputs >>

Bump(calls, tc) ==
  IF Gated(tc)
  THEN [calls EXCEPT ![GateKey(tc)] = Min(@ + 1, 2)]
  ELSE calls

\* the cap is checked after the call that exceeds it
CapReached_Late(count) == count > MAX_TOOL_CALLS_PER_TURN

\* if (callCount >= MAX_TOOL_CALLS_PER_TURN) break
CapReached(count) == count >= MAX_TOOL_CALLS_PER_TURN

\* the sleep tool, when it succeeds: the dormancy deadline is left to the
\* tool itself; whether it also records the sleeping state is not fixed
SleepToolEffect(d, setsState) ==
  /\ sleep_until' = now + d
  /\ agentState' = IF setsState THEN "sleeping" ELSE agentState

\* a call that returned an error is left out of the sets
Tracked_OnSuccess(isError, before, after) ==
  IF isError THEN before ELSE after

\* the two sets after executeTool returned: the adds do not look at
\* result.error
Tracked(isError, before, after) == after

\* one pass of the for loop over response.toolCalls: the guards, then
\* executeTool
ProcessToolCall ==
  /\ pc = "tools"
  /\ callCount < respLen
  /\ ~CapReached(callCount)
  /\ \E rq \in catalog :
       LET tc == Call(rq, callCount + 1) IN
       IF OnceBlocked(tc, calledOnceTools) \/ ExecBlocked(tc, executedCommands)
       THEN /\ toolCalls' = Append(toolCalls, BlockedResult(tc))
            /\ UNCHANGED << calledOnceTools, executedCommands, sleep_until,
                            agentState, loopInvoked, turnExecs >>
       ELSE \E isError \in BOOLEAN :
              /\ toolCalls' = Append(toolCalls, ExecutedResult(tc, isError))
              /\ executedCommands' =
                   Tracked(isError, executedCommands,
                           TrackCommands(tc, executedCommands))
              /\ calledOnceTools' =
                   Tracked(isError, calledOnceTools,
                           TrackOnce(tc.name, calledOnceTools))
              /\ loopInvoked' = Bump(loopInvoked, tc)
              /\ turnExecs' = turnExecs + 1
              /\ IF tc.name = "sleep" /\ ~isError
                 THEN \E d \in SleepDurations, setsState \in BOOLEAN :
                        SleepToolEffect(d, setsState)
                 ELSE UNCHANGED << sleep_until, agentState >>
  /\ callCount' = callCount + 1
  /\ UNCHANGED << pc, now, lowComputeMode, consecutiveErrors, turnsThisWake,
                  lastToolName, consecutiveSameTool, bootIdx, pendingInput,
                  currentInput, respLen, finishReason, costCents, tier,
                  inputVars, wakeVars, total_spent_cents, endReason, endTime,
                  persistedTurns, runFp, runLen, failStreak, bootInvoked,
                  fnVars >>
  /\ UNCHANGED << refreshVars, bootVars, responseCost, dbVars, inboxVars >>

\* executeTool throws inside a loop turn: the turn is abandoned
ToolThrow ==
  /\ pc = "tools"
  /\ callCount < respLen
  /\ ~CapReached(callCount)
  /\ \E tc \in catalog :
       /\ ~OnceBlocked(tc, calledOnceTools)
       /\ ~ExecBlocked(tc, executedCommands)
       /\ loopInvoked' = Bump(loopInvoked, tc)
  /\ Catch
  /\ UNCHANGED << now, lowComputeMode, turnsThisWake, guardVars, bootIdx,
                  pendingInput, inputVars, wakeVars, total_spent_cents,
                  persistedTurns, runFp, runLen, bootInvoked, fnVars >>
  /\ UNCHANGED << refreshVars, bootVars, dbVars, inboxDb, pendingMessages,
                  turnInputs >>

\* the run of single-call turns an observer of the persisted turns sees
ObservedRun(calls, fp, len) ==
  IF Len(calls) = 1
  THEN IF Fingerprint(calls[1]) = fp
       THEN [fp |-> fp, len |-> len + 1]
       ELSE [fp |-> Fingerprint(calls[1]), len |-> 1]
  ELSE [fp |-> NoFingerprint, len |-> 0]

\* the turn count is never a multiple of 5
SnapshotDue_Never(count) == FALSE

\* if (turnCount % 5 === 0)
SnapshotDue(count) == count % 5 = 0

\* the snapshot block after recordTurnCost: the snapshot is computed, added
\* to the snapshot table and written to the KV store; whatever throws on
\* the way is caught and dropped
SnapshotBlock ==
  IF scenario.counting /\ SnapshotDue(turnCount')
  THEN \E outcome \in {"saved", "failed", "inserted"} :
         /\ snapshotOutcome' = outcome
         /\ snapshots' =
              IF outcome = "failed" THEN snapshots ELSE snapshots + 1
         /\ last_economics_snapshot' =
              IF outcome = "saved"
              THEN getEconomicsSnapshot(total_spent_cents',
                                        total_earned_cents, budgetCents,
                                        start_time, now)
              ELSE last_economics_snapshot
  ELSE /\ snapshotOutcome' = "none"
       /\ UNCHANGED << snapshots, last_economics_snapshot >>

\* the turn is persisted, the repetition counter updated and the
\* termination rules evaluated
PersistTurn ==
  /\ pc = "tools"
  /\ callCount >= respLen \/ CapReached(callCount)
  /\ persistedTurns' = persistedTurns + 1
  /\ turnsThisWake' = turnsThisWake + 1
  /\ LET rep == NextRepetition(toolCalls, lastToolName, consecutiveSameTool)
         obs == ObservedRun(toolCalls, runFp, runLen)
         rule == TerminationRule(rep.count, toolCalls, turnsThisWake + 1,
                                 respLen, finishReason)
     IN /\ lastToolName' = rep.last
        /\ consecutiveSameTool' = rep.count
        /\ runFp' = obs.fp
        /\ runLen' = obs.len
        /\ sleep_until' = RuleDeadline(rule, sleep_until, now)
        /\ IF rule = "none"
           THEN /\ pc' = "top"
                /\ consecutiveErrors' = 0
                /\ UNCHANGED << agentState, endReason, endTime >>
           ELSE /\ agentState' = "sleeping"
                /\ Stop(rule)
                /\ consecutiveErrors' =
                     IF rule = "idle" THEN 0 ELSE consecutiveErrors
  /\ lastTurn' = [inputSource |-> currentInput, costCents |-> costCents]
  /\ total_spent_cents' =
       recordTurnCost(total_spent_cents, ActualCost(responseCost, costCents))
  /\ CountTurn
  /\ SnapshotBlock
  /\ failStreak' = 0
  /\ turnInputs' = Followed(turnInputs, currentMessages)
  /\ LeaveIteration
  /\ UNCHANGED << refreshVars, bootVars, inboxDb, pendingMessages,
                  droppedMessages >>
  /\ UNCHANGED << now, lowComputeMode, calledOnceTools, executedCommands,
                  bootIdx, pendingInput, inputVars, wakeVars, bootInvoked,
                  loopInvoked, fnVars >>

\* time passes
Tick ==
  /\ now < MaxNow
  /\ now' = now + 1
  /\ UNCHANGED << pc, agentState, sleep_until, lowComputeMode,
                  consecutiveErrors, turnsThisWake, guardVars, bootIdx,
                  pendingInput, currentInput, turnVars, inputVars, wakeVars,
                  total_spent_cents, histVars, fnVars >>
  /\ UNCHANGED << refreshVars, bootVars, dbVars, inboxVars >>

\* ------------------------------------------------------------------------
\* Harness of the tier function: two runway values are drawn, then the
\* function is applied to both
\* ------------------------------------------------------------------------
RunwayValues == 0..MaxRunway \cup {UNLIMITED_RUNWAY}

TierInit ==
  /\ r1 \in RunwayValues
  /\ r2 \in RunwayValues
  /\ t1 = "none"
  /\ t2 = "none"
  /\ EconIdle
  /\ AnthropicIdle
  /\ ClientIdle
  /\ ScanIdle
  /\ SocialIdle

ApplyTier ==
  /\ t1 = "none"
  /\ t1' = getRunwayTier(r1)
  /\ t2' = getRunwayTier(r2)
  /\ UNCHANGED << r1, r2, econVars, anthVars, clientVars, scanVars, socialVars,
                  loopVars >>

\* ------------------------------------------------------------------------
\* Harness of the economics functions: costs are recorded and earnings
\* credited in any order while the clock runs, and the functions are called
\* on the state reached
\* ------------------------------------------------------------------------
BudgetValues == {4, 6480}
StartTimes == {NoStart, START_EARLIER, << 0 >>}
HarnessCosts == {0, 5}
EarningValues == {0, 5}

\* everything of the wake loop but the clock and the running total
sessionVars ==
  << pc, agentState, sleep_until, lowComputeMode, consecutiveErrors,
     turnsThisWake, guardVars, bootIdx, pendingInput, currentInput, turnVars,
     inputVars, wakeVars, histVars, refreshVars, bootVars, dbVars,
     inboxVars >>

EconInit ==
  /\ budgetCents \in BudgetValues
  /\ total_earned_cents = << >>
  /\ econResult = NoResult
  /\ r1 = 0 /\ r2 = 0 /\ t1 = "none" /\ t2 = "none"
  /\ AnthropicIdle
  /\ ClientIdle
  /\ ScanIdle
  /\ SocialIdle

\* recordTurnCost(db, turn.id, actualCost)
CostRecorded ==
  /\ \E c \in costs :
       /\ Number(total_spent_cents) + c <= MaxSpent
       /\ total_spent_cents' = recordTurnCost(total_spent_cents, c)
  /\ UNCHANGED << now, sessionVars, fnVars >>

\* an earnings update adds to total_earned_cents
EarningsCredited ==
  /\ \E e \in EarningValues :
       /\ Number(total_earned_cents) + e <= MaxEarned
       /\ total_earned_cents' = String(Number(total_earned_cents) + e)
  /\ UNCHANGED << loopVars, tierVars, anthVars, clientVars, scanVars, socialVars,
                  budgetCents, econResult >>

SnapshotTaken ==
  /\ econResult' =
       getEconomicsSnapshot(total_spent_cents, total_earned_cents,
                            budgetCents, start_time, now)
  /\ UNCHANGED << loopVars, tierVars, anthVars, clientVars, scanVars, socialVars,
                  budgetCents, total_earned_cents >>

SpawnGateChecked ==
  /\ \E numChildren \in 0..MaxChildren :
       econResult' =
         checkSpawnGate(total_spent_cents, total_earned_cents, budgetCents,
                        start_time, now, numChildren)
  /\ UNCHANGED << loopVars, tierVars, anthVars, clientVars, scanVars, socialVars,
                  budgetCents, total_earned_cents >>

\* ------------------------------------------------------------------------
\* Harness of the Anthropic translation: a message list is drawn, the request
\* body is built from it, and a response of the endpoint is normalised
\* ------------------------------------------------------------------------
\* argument texts that are JSON objects
\* {}
ARGS_EMPTY ==
  << "{", "}" >>
\* {"c":"ls"}
ARGS_COMMAND ==
  << "{", QUOTE, "c", QUOTE, ":", QUOTE, "l", "s", QUOTE, "}" >>
\* { "c" : "ls" }
ARGS_SPACED ==
  << "{", " ", QUOTE, "c", QUOTE, " ", ":", " ", QUOTE, "l", "s", QUOTE,
     " ", "}" >>
\* {"a":1,"b":2,"a":0}
ARGS_REPEATED_KEY ==
  << "{", QUOTE, "a", QUOTE, ":", "1", ",", QUOTE, "b", QUOTE, ":", "2",
     ",", QUOTE, "a", QUOTE, ":", "0", "}" >>
\* {"a":{"b":[10,null]}}
ARGS_NESTED ==
  << "{", QUOTE, "a", QUOTE, ":", "{", QUOTE, "b", QUOTE, ":", "[", "1",
     "0", ",", "n", "u", "l", "l", "]", "}", "}" >>
\* {"a":"\"\\"}
ARGS_ESCAPED ==
  << "{", QUOTE, "a", QUOTE, ":", QUOTE, BACKSLASH, QUOTE, BACKSLASH,
     BACKSLASH, QUOTE, "}" >>
\* {"a":10,"b":""}
ARGS_TWO_KEYS ==
  << "{", QUOTE, "a", QUOTE, ":", "1", "0", ",", QUOTE, "b", QUOTE, ":",
     QUOTE, QUOTE, "}" >>
\*  { } 
ARGS_EMPTY_SPACED ==
  << " ", "{", " ", "}", " " >>
ObjectTexts ==
  { ARGS_EMPTY,
    ARGS_COMMAND,
    ARGS_SPACED,
    ARGS_REPEATED_KEY,
    ARGS_NESTED,
    ARGS_ESCAPED,
    ARGS_TWO_KEYS,
    ARGS_EMPTY_SPACED }
\* argument texts that are JSON values of another type
\* [1]
ARGS_ARRAY ==
  << "[", "1", "]" >>
\* 7
ARGS_NUMBER ==
  << "7" >>
\* 0
ARGS_ZERO ==
  << "0" >>
\* null
ARGS_NULL ==
  << "n", "u", "l", "l" >>
\* "a"
ARGS_STRING ==
  << QUOTE, "a", QUOTE >>
ValueTexts ==
  { ARGS_ARRAY, ARGS_NUMBER, ARGS_ZERO, ARGS_NULL, ARGS_STRING }
\* argument texts that are not JSON
\* the empty text
ARGS_NOTHING ==
  << >>
\* {"a":1
ARGS_UNCLOSED ==
  << "{", QUOTE, "a", QUOTE, ":", "1" >>
\* {a:1}
ARGS_BARE_KEY ==
  << "{", "a", ":", "1", "}" >>
\* {"a":1} x
ARGS_TRAILING ==
  << "{", QUOTE, "a", QUOTE, ":", "1", "}", " ", "x" >>
\* {"a":01}
ARGS_LEADING_ZERO ==
  << "{", QUOTE, "a", QUOTE, ":", "0", "1", "}" >>
\* {"a":1,}
ARGS_COMMA ==
  << "{", QUOTE, "a", QUOTE, ":", "1", ",", "}" >>
BrokenTexts ==
  { ARGS_NOTHING,
    ARGS_UNCLOSED,
    ARGS_BARE_KEY,
    ARGS_TRAILING,
    ARGS_LEADING_ZERO,
    ARGS_COMMA }
ArgumentTexts == ObjectTexts \cup ValueTexts \cup BrokenTexts

CallIds == {"call_1", "call_2"}
CalledNames == {"exec", "sleep"}
SYSTEM_TEXT == << "b", "e" >>
USER_TEXT == << "g", "o" >>
RESULT_TEXT == << "o", "k" >>
AssistantTexts == { << >>, << "h", "m" >> }

SystemMessage == ChatMessage("system", SYSTEM_TEXT, << >>, "")
UserMessage == ChatMessage("user", USER_TEXT, << >>, "")

\* an assistant message with one tool call and the tool message that follows
\* it, which names the call or lacks tool_call_id
OneCallChatsOf(id) ==
  { << SystemMessage, UserMessage,
       ChatMessage("assistant", text, << ToolCall(id, name, raw) >>, ""),
       ChatMessage("tool", RESULT_TEXT, << >>, answered) >> :
      text \in AssistantTexts, name \in CalledNames,
      raw \in ArgumentTexts, answered \in {id, ""} }

OneCallChats == UNION { OneCallChatsOf(id) : id \in CallIds }

\* an assistant message with two tool calls and their tool messages
TwoCallChats ==
  { << UserMessage,
       ChatMessage("assistant", << >>,
                   << ToolCall("call_1", "exec", raw1),
                      ToolCall("call_2", "sleep", raw2) >>, ""),
       ChatMessage("tool", RESULT_TEXT, << >>, "call_1"),
       ChatMessage("tool", << >>, << >>, "call_2") >> :
      raw1 \in {ARGS_SPACED, ARGS_BARE_KEY},
      raw2 \in {ARGS_NESTED, ARGS_NUMBER} }

\* no message, system messages only, an assistant message without content
PlainChats ==
  { << >>,
    << SystemMessage, ChatMessage("system", << >>, << >>, ""),
       SystemMessage >>,
    << UserMessage, ChatMessage("assistant", << >>, << >>, "") >> }

Chats == OneCallChats \cup TwoCallChats \cup PlainChats

\* responses of the endpoint to a request: a failure status, no content,
\* text blocks, a tool_use block without input, and the content of an
\* assistant message of the request
ResponseData(ok, content, stop_reason) ==
  [kind |-> "data", ok |-> ok, content |-> content,
   stop_reason |-> stop_reason]

Responses(b) ==
  { ResponseData(FALSE, << >>, << >>),
    ResponseData(TRUE, << >>, << >>),
    ResponseData(TRUE, << TextBlock(<< " ", "h", "m" >>), TextBlock(<< >>) >>,
                 << "end_turn" >>),
    ResponseData(TRUE, << ToolUseBlock("call_9", "sleep", JUndefined) >>,
                 << "tool_use" >>) }
  \cup
  { ResponseData(TRUE, b.messages[i].blocks, << "tool_use" >>) :
      i \in { j \in 1..Len(b.messages) : b.messages[j].role = "assistant" } }

AnthropicInit ==
  /\ messages \in Chats
  /\ body = NoResult
  /\ data = NoResult
  /\ response = NoResult
  /\ r1 = 0 /\ r2 = 0 /\ t1 = "none" /\ t2 = "none"
  /\ EconIdle
  /\ ClientIdle
  /\ ScanIdle
  /\ SocialIdle

\* chatViaAnthropic up to the request
AnthropicRequest ==
  /\ body.kind = "none"
  /\ body' = AnthropicBody(messages)
  /\ UNCHANGED << messages, data, response, loopVars, tierVars, econVars,
                  clientVars, scanVars, socialVars >>

\* chatViaAnthropic from the response of the endpoint on
AnthropicRespond ==
  /\ body.kind = "body"
  /\ response.kind = "none"
  /\ \E d \in Responses(body) :
       /\ data' = d
       /\ response' = AnthropicResponse(d)
  /\ UNCHANGED << messages, body, loopVars, tierVars, econVars,
                  clientVars, scanVars, socialVars >>

\* ------------------------------------------------------------------------
\* Inference cl: model routing and low-compute mode
\* ------------------------------------------------------------------------
UPPER_CASE ==
  << "A", "B", "C", "D", "E", "F", "G", "H", "I", "J", "K", "L", "M", "N",
     "O", "P", "Q", "R", "S", "T", "U", "V", "W", "X", "Y", "Z" >>
LOWER_CASE ==
  << "a", "b", "c", "d", "e", "f", "g", "h", "i", "j", "k", "l", "m", "n",
     "o", "p", "q", "r", "s", "t", "u", "v", "w", "x", "y", "z" >>

LowerChar(ch) ==
  IF \E i \in 1..26 : UPPER_CASE[i] = ch
    THEN LOWER_CASE[CHOOSE i \in 1..26 : UPPER_CASE[i] = ch]
    ELSE ch

\* the text a pattern with the i flag is matched against
LowerCase(s) == [i \in 1..Len(s) |-> LowerChar(s[i])]

\* /^prefix/.test(s)
StartsWith(s, prefix) ==
  Len(s) >= Len(prefix) /\ SubSeq(s, 1, Len(prefix)) = prefix

\* /^o[1-9]/.test(s)
StartsWithO(s) ==
  Len(s) >= 2 /\ s[1] = "o" /\ s[2] \in (DigitChars \ {"0"})

\* /^claude/i.test(model)
IsClaudeModel(model) ==
  StartsWith(LowerCase(model), << "c", "l", "a", "u", "d", "e" >>)

\* /^(gpt|o[1-9]|chatgpt)/i.test(model)
IsOpenAiModel(model) ==
  LET m == LowerCase(model) IN
    \/ StartsWith(m, << "g", "p", "t" >>)
    \/ StartsWithO(m)
    \/ StartsWith(m, << "c", "h", "a", "t", "g", "p", "t" >>)

\* /^(o[1-9]|gpt-5|gpt-4\.1)/.test(model)
usesCompletionTokens(model) ==
  \/ StartsWithO(model)
  \/ StartsWith(model, << "g", "p", "t", "-", "5" >>)
  \/ StartsWith(model, << "g", "p", "t", "-", "4", ".", "1" >>)

resolveInferenceBackend(model, keys) ==
  IF keys.anthropicApiKey /\ IsClaudeModel(model) THEN "anthropic"
  ELSE IF keys.openaiApiKey /\ IsOpenAiModel(model) THEN "openai"
  ELSE "conway"

\* the gateway is taken only when no named provider matched
GatewayChosen_AfterProviders(backend, moatGatewayUrl, model) ==
  moatGatewayUrl /\ backend # "openai" /\ IsOpenAiModel(model)

\* if (moatGatewayUrl && (backend === "openai" || isOpenAiModel))
GatewayChosen(backend, moatGatewayUrl, model) ==
  moatGatewayUrl /\ (backend = "openai" \/ IsOpenAiModel(model))

\* what chat(messages, opts) sends and where: callModel is opts.model, << >>
\* if absent; opts.maxTokens is absent
ChatRequest(cl, callModel, moatGatewayUrl) ==
  LET model == IF callModel # << >> THEN callModel ELSE cl.currentModel
      backend == resolveInferenceBackend(model, cl.options)
  IN  [kind |-> "request",
       model |-> model,
       tokenField |->
         IF usesCompletionTokens(model) THEN "max_completion_tokens"
         ELSE "max_tokens",
       tokenLimit |-> cl.maxTokens,
       backend |-> backend,
       via |->
         IF backend = "anthropic" THEN "chatViaAnthropic"
         ELSE IF GatewayChosen(backend, moatGatewayUrl, model)
           THEN "chatViaMoatGateway"
         ELSE "chatViaOpenAiCompatible",
       \* the base URL a chatViaOpenAiCompatible call would use
       apiUrl |->
         IF backend = "openai" THEN "https://api.openai.com" ELSE "apiUrl"]

LOW_COMPUTE_MAX_TOKENS == 4096

MODEL_GPT5 == << "g", "p", "t", "-", "5" >>
MODEL_GPT41 == << "g", "p", "t", "-", "4", ".", "1" >>
MODEL_GPT4O_UPPER == << "G", "P", "T", "-", "4", "o" >>
MODEL_O3 == << "o", "3" >>
MODEL_CHATGPT == << "c", "h", "a", "t", "g", "p", "t", "-", "4", "o" >>
MODEL_CLAUDE == << "c", "l", "a", "u", "d", "e", "-", "3" >>
MODEL_CLAUDE_UPPER == << "C", "l", "a", "u", "d", "e", "-", "3" >>
MODEL_LLAMA == << "l", "l", "a", "m", "a" >>
MODEL_MINI == << "g", "p", "t", "-", "4", "o", "-", "m", "i", "n", "i" >>

\* options.lowComputeModel || "gpt-4.1"
LowComputeModelOf(opts) ==
  IF opts.lowComputeModel # << >> THEN opts.lowComputeModel ELSE MODEL_GPT41

\* the client as createInferenceClient leaves it
NewClient(opts) ==
  [options |-> opts, currentModel |-> opts.defaultModel,
   maxTokens |-> opts.maxTokens]

\* disabling keeps the lower of the two ceilings
setLowComputeMode_Layered(cl, enabled) ==
  IF enabled
    THEN [cl EXCEPT !.currentModel = LowComputeModelOf(cl.options),
                    !.maxTokens = LOW_COMPUTE_MAX_TOKENS]
    ELSE [cl EXCEPT !.currentModel = cl.options.defaultModel,
                    !.maxTokens = Min(cl.maxTokens, cl.options.maxTokens)]

setLowComputeMode(cl, enabled) ==
  IF enabled
    THEN [cl EXCEPT !.currentModel = LowComputeModelOf(cl.options),
                    !.maxTokens = LOW_COMPUTE_MAX_TOKENS]
    ELSE [cl EXCEPT !.currentModel = cl.options.defaultModel,
                    !.maxTokens = cl.options.maxTokens]

getDefaultModel(cl) == cl.currentModel

\* ------------------------------------------------------------------------
\* Harness of the inference client: a client is created from some options,
\* the mode is set any number of times and chat is called in between
\* ------------------------------------------------------------------------
DefaultModels ==
  { MODEL_GPT5, MODEL_GPT4O_UPPER, MODEL_O3, MODEL_CHATGPT, MODEL_CLAUDE,
    MODEL_CLAUDE_UPPER, MODEL_LLAMA }

ClientOptions ==
  [defaultModel : DefaultModels,
   lowComputeModel : {<< >>, MODEL_MINI},
   maxTokens : {1024, 4096, 8192},
   openaiApiKey : BOOLEAN,
   anthropicApiKey : BOOLEAN]

\* opts.model of a chat call
CallModels == {<< >>, MODEL_CLAUDE, MODEL_GPT41}

ClientInit ==
  /\ client \in { NewClient(o) : o \in ClientOptions }
  /\ modeCalls = << >>
  /\ chatRequest = NoResult
  /\ r1 = 0 /\ r2 = 0 /\ t1 = "none" /\ t2 = "none"
  /\ EconIdle
  /\ AnthropicIdle
  /\ ScanIdle
  /\ SocialIdle

SetLowComputeMode ==
  /\ Len(modeCalls) < MaxModeCalls
  /\ \E enabled \in BOOLEAN :
       /\ client' = setLowComputeMode(client, enabled)
       /\ modeCalls' = Append(modeCalls, enabled)
  /\ UNCHANGED << chatRequest, loopVars, tierVars, econVars, anthVars,
                  scanVars, socialVars >>

Chat ==
  /\ \E callModel \in CallModels :
       chatRequest' =
         ChatRequest(client, callModel, processEnv.MOAT_GATEWAY_URL)
  /\ UNCHANGED << client, modeCalls, loopVars, tierVars, econVars, anthVars,
                  scanVars, socialVars >>

\* ------------------------------------------------------------------------
\* Landscape scanner: scanLandscape with its module-level cache
\* ------------------------------------------------------------------------
SCAN_CACHE_TTL == 10

\* the cache is consulted whatever its age
CacheFresh_Always(cache, clock) == cache # << >>

\* lastScanResult && (Date.now() - lastScanResult.timestamp) < TTL
CacheFresh(cache, clock) ==
  cache # << >> /\ clock - cache[1].timestamp < SCAN_CACHE_TTL

\* what the scanners return in the runs: registry scans of the two
\* networks and the bounty lists of the two boards
Agent(id, services) == [agentId |-> id, services |-> services]
Bounty(id, cents) == [id |-> id, rewardCents |-> cents]

EMPTY_REGISTRY == [totalAgents |-> 0, agents |-> << >>, services |-> << >>]

MAINNET_REGISTRY ==
  [totalAgents |-> 2,
   agents |-> << Agent("1", << "swap" >>), Agent("2", << >>) >>,
   services |-> << "swap" >>]

TESTNET_REGISTRY ==
  [totalAgents |-> 1,
   agents |-> << Agent("1", << "echo" >>) >>,
   services |-> << "echo" >>]

GITHUB_BOUNTIES == << Bounty("g1", 100), Bounty("g2", 700) >>
ALGORA_BOUNTIES == << Bounty("a1", 500), Bounty("a2", 100) >>

Branches == {"mainnet", "testnet", "github", "algora"}

SampleOf(branch) ==
  CASE branch = "mainnet" -> MAINNET_REGISTRY
    [] branch = "testnet" -> TESTNET_REGISTRY
    [] branch = "github" -> GITHUB_BOUNTIES
    [] OTHER -> ALGORA_BOUNTIES

EmptyOf(branch) ==
  IF branch \in {"mainnet", "testnet"} THEN EMPTY_REGISTRY ELSE << >>

\* what Promise.allSettled may deliver: each branch fulfilled or rejected
Settlements ==
  IF scenario.branchFailures
  THEN [Branches -> {"fulfilled", "rejected"}]
  ELSE {[b \in Branches |-> "fulfilled"]}

\* a rejected branch contributes what it returned the last time
ValueOf_Sample(branch, status) == SampleOf(branch)

\* result.status === "fulfilled" ? result.value : (empty)
ValueOf(branch, status) ==
  IF status = "fulfilled" THEN SampleOf(branch) ELSE EmptyOf(branch)

\* agents.map((a) => ({ ...a, agentId: `${network}:${a.agentId}` }))
Tagged(network, agents) ==
  [k \in 1..Len(agents) |->
     [agents[k] EXCEPT !.agentId = << network, agents[k].agentId >>]]

\* Array.prototype.sort with (a, b) => b.rewardCents - a.rewardCents: stable,
\* highest reward first
RECURSIVE InsertByReward(_, _)
InsertByReward(sorted, b) ==
  IF sorted = << >> THEN << b >>
  ELSE IF Head(sorted).rewardCents >= b.rewardCents
    THEN << Head(sorted) >> \o InsertByReward(Tail(sorted), b)
  ELSE << b >> \o sorted

RECURSIVE SortByReward(_)
SortByReward(bounties) ==
  IF bounties = << >> THEN << >>
  ELSE InsertByReward(SortByReward(SubSeq(bounties, 1, Len(bounties) - 1)),
                      bounties[Len(bounties)])

\* the snapshot built from the settled branches
BuildSnapshot(id, settled) ==
  LET mainnet == ValueOf("mainnet", settled["mainnet"])
      testnet == ValueOf("testnet", settled["testnet"])
      githubBounties == ValueOf("github", settled["github"])
      algoraBounties == ValueOf("algora", settled["algora"])
      allAgents ==
        Tagged("mainnet", mainnet.agents) \o Tagged("testnet", testnet.agents)
  IN  [id |-> id,
       totalAgents |-> mainnet.totalAgents + testnet.totalAgents,
       scannedAgents |-> Len(allAgents),
       serviceProviders |->
         Cardinality({ allAgents[k].agentId :
                         k \in { j \in 1..Len(allAgents) :
                                   Len(allAgents[j].services) > 0 } }),
       agents |-> allAgents,
       bounties |-> SortByReward(githubBounties \o algoraBounties),
       services |-> mainnet.services \o testnet.services]

ScanInitOf(calls) ==
  /\ scanPc = [i \in 1..calls |-> "idle"]
  /\ scanReturn = [i \in 1..calls |-> 0]
  /\ lastScanResult = << >>
  /\ scanClock = 0
  /\ fanOuts = << >>
  /\ landscapeSnapshots = << >>
  /\ r1 = 0 /\ r2 = 0 /\ t1 = "none" /\ t2 = "none"
  /\ EconIdle
  /\ AnthropicIdle
  /\ ClientIdle
  /\ SocialIdle

ScanInit == ScanInitOf(MaxScans)

\* scanLandscape up to the await of Promise.allSettled: the cached snapshot
\* is returned, or an id is made and the four scanners are started
ScanEnter(i) ==
  /\ scanPc[i] = "idle"
  /\ IF CacheFresh(lastScanResult, scanClock)
     THEN /\ scanPc' = [scanPc EXCEPT ![i] = "returned"]
          /\ scanReturn' =
               [scanReturn EXCEPT ![i] = lastScanResult[1].snapshot]
          /\ UNCHANGED fanOuts
     ELSE /\ scanPc' = [scanPc EXCEPT ![i] = "scanning"]
          /\ scanReturn' = [scanReturn EXCEPT ![i] = Len(fanOuts) + 1]
          /\ fanOuts' = Append(fanOuts, scanClock)
  /\ UNCHANGED << lastScanResult, scanClock, landscapeSnapshots, loopVars,
                  tierVars, econVars, anthVars, clientVars, socialVars >>

\* the four scanners have settled: the snapshot is built, persisted, cached
\* and returned
ScanComplete(i) ==
  /\ scanPc[i] = "scanning"
  /\ \E settled \in Settlements :
       landscapeSnapshots' =
         Append(landscapeSnapshots,
                [id |-> scanReturn[i], at |-> scanClock,
                 settled |-> settled,
                 snapshot |-> BuildSnapshot(scanReturn[i], settled)])
  /\ lastScanResult' =
       << [snapshot |-> scanReturn[i], timestamp |-> scanClock] >>
  /\ scanPc' = [scanPc EXCEPT ![i] = "returned"]
  /\ UNCHANGED << scanReturn, scanClock, fanOuts, loopVars, tierVars,
                  econVars, anthVars, clientVars, socialVars >>

\* the caller invokes scanLandscape again
ScanAgain(i) ==
  /\ scanPc[i] = "returned"
  /\ scanPc' = [scanPc EXCEPT ![i] = "idle"]
  /\ scanReturn' = [scanReturn EXCEPT ![i] = 0]
  /\ UNCHANGED << lastScanResult, scanClock, fanOuts, landscapeSnapshots,
                  loopVars, tierVars, econVars, anthVars, clientVars, socialVars >>

ScanTick ==
  /\ scanClock < MaxScanClock
  /\ scanClock' = scanClock + 1
  /\ UNCHANGED << scanPc, scanReturn, lastScanResult, fanOuts,
                  landscapeSnapshots, loopVars, tierVars, econVars, anthVars,
                  clientVars, socialVars >>

\* ------------------------------------------------------------------------
\* Heartbeat task check_social_inbox: the relay is polled and what it
\* returns is entered in the inbox.  Cursors are texts; an optional value is
\* << >> (undefined) or << text >>.
\* ------------------------------------------------------------------------
MessageIds == 1..MaxMessageId
CURSOR_A == << "a" >>
CURSOR_B == << "b" >>

\* what a poll may return: any messages, in particular ones returned
\* before, and no next cursor, an empty one or a new one
PollMessages == UNION { [1..n -> MessageIds] : n \in 0..MaxPollLen }
NextCursors == { << >>, << << >> >>, << CURSOR_A >>, << CURSOR_B >> }

\* a KV value or an optional text in a condition: undefined and the empty
\* string are falsy
CursorGiven(opt) == opt # << >> /\ opt[1] # << >>

\* ctx.db.getKV("social_inbox_cursor") || undefined
CursorArg(kv) == IF CursorGiven(kv) THEN kv ELSE << >>

\* no message counts as seen
AlreadySeen_Never(id, seenIds) == FALSE

\* const existing = ctx.db.getKV(`inbox_seen_${msg.id}`)
AlreadySeen(id, seenIds) == id \in seenIds

\* the for loop over the polled messages
RECURSIVE StoreMessages(_, _, _, _)
StoreMessages(msgs, seenIds, rows, newCount) ==
  IF msgs = << >>
  THEN [seen |-> seenIds, rows |-> rows, newCount |-> newCount]
  ELSE IF AlreadySeen(Head(msgs), seenIds)
       THEN StoreMessages(Tail(msgs), seenIds, rows, newCount)
       ELSE StoreMessages(Tail(msgs), seenIds \cup {Head(msgs)},
                          Append(rows, Head(msgs)), newCount + 1)

TaskReturn(msgs, next, newCount, wake) ==
  [kind |-> "returned", polled |-> msgs, nextCursor |-> next,
   newCount |-> newCount, shouldWake |-> wake]

SocialInit ==
  /\ social \in BOOLEAN
  /\ socialPc = "idle" /\ pollCursor = << >>
  /\ inbox_seen = {} /\ inbox_messages = << >>
  /\ social_inbox_cursor = << >> /\ taskRuns = 0
  /\ taskResult = [kind |-> "none"]
  /\ r1 = 0 /\ r2 = 0 /\ t1 = "none" /\ t2 = "none"
  /\ EconIdle
  /\ AnthropicIdle
  /\ ClientIdle
  /\ ScanIdle

\* the heartbeat runs the task: without ctx.social it returns at once,
\* otherwise the cursor is read and the poll awaited
CheckSocialInbox ==
  /\ socialPc = "idle"
  /\ taskRuns < MaxPolls
  /\ taskRuns' = taskRuns + 1
  /\ IF ~social
     THEN /\ taskResult' = TaskReturn(<< >>, << >>, 0, FALSE)
          /\ UNCHANGED << socialPc, pollCursor >>
     ELSE /\ socialPc' = "polling"
          /\ pollCursor' = CursorArg(social_inbox_cursor)
          /\ taskResult' = [kind |-> "pending"]
  /\ UNCHANGED << social, inbox_seen, inbox_messages, social_inbox_cursor,
                  loopVars, tierVars, econVars, anthVars, clientVars,
                  scanVars >>

\* the poll returns: new messages are inserted and marked as seen, the
\* cursor is written, the task returns
PollReturns ==
  /\ socialPc = "polling"
  /\ \E msgs \in PollMessages, next \in NextCursors :
       IF Len(msgs) = 0
       THEN /\ taskResult' = TaskReturn(msgs, next, 0, FALSE)
            /\ UNCHANGED << inbox_seen, inbox_messages,
                            social_inbox_cursor >>
       ELSE LET st == StoreMessages(msgs, inbox_seen, inbox_messages, 0) IN
            /\ inbox_seen' = st.seen
            /\ inbox_messages' = st.rows
            /\ social_inbox_cursor' =
                 IF CursorGiven(next) THEN next ELSE social_inbox_cursor
            /\ taskResult' =
                 TaskReturn(msgs, next, st.newCount, st.newCount # 0)
  /\ socialPc' = "idle"
  /\ pollCursor' = << >>
  /\ UNCHANGED << social, taskRuns, loopVars, tierVars, econVars, anthVars,
                  clientVars, scanVars >>

\* the poll rejects: the task throws before it wrote anything
PollThrows ==
  /\ socialPc = "polling"
  /\ socialPc' = "idle"
  /\ pollCursor' = << >>
  /\ taskResult' = [kind |-> "thrown"]
  /\ UNCHANGED << social, inbox_seen, inbox_messages, social_inbox_cursor,
                  taskRuns, loopVars, tierVars, econVars, anthVars,
                  clientVars, scanVars >>

\* ------------------------------------------------------------------------
\* Specifications
\* ------------------------------------------------------------------------
CatalogMain == { Req("sleep", << >>) }
CatalogStuck == { Req("exec", CMD_LONG_X), Req("exec", CMD_LONG_Y) }
CatalogOnce ==
  { Req("check_economics", << >>), Req("check_credits", << >>),
    Req("write_file", << >>) }
CatalogExec ==
  { Req("exec", CMD_A), Req("exec", CMD_A_PADDED), Req("exec", CMD_B) }

CatalogSession == { Req("check_credits", << >>), Req("exec", CMD_A) }
\* responses of the session specification carry at most one tool call
SessionSizes == {0, 1}

\* costs of a turn: nothing, or four cents (the third one carries into the
\* tens)
TurnCosts == {0, 4}
CostSizes == {0, 1}

\* the first two bootstrap steps, as requests of a loop turn
CatalogGate == { Req("check_economics", << >>), Req("exec", BOOT_CMD_ENV) }
GateSizes == {1}

CatalogBlocked == { Req("check_economics", << >>) }
BlockedSizes ==
  {1, MAX_TOOL_CALLS_PER_TURN, MAX_TOOL_CALLS_PER_TURN + 1}

FailedSizes == {2}

CatalogCap == { Req("check_credits", << >>) }

\* response sizes below, at and above the per-turn cap
CapSizes ==
  (0..MaxReq) \cup
    ((MAX_TOOL_CALLS_PER_TURN - 1)..(MAX_TOOL_CALLS_PER_TURN + MaxReq))

Init == LoopInit(CatalogMain) /\ FnIdle
InitStuck == LoopInit(CatalogStuck) /\ FnIdle
InitOnce == LoopInit(CatalogOnce) /\ FnIdle
InitExec == LoopInit(CatalogExec) /\ FnIdle
InitSession ==
  LoopInitOf(CatalogSession, SessionSizes, TRUE, {0}, START_EARLIER) /\ FnIdle
InitCost ==
  LoopInitOf(CatalogMain, CostSizes, FALSE, TurnCosts, START_EARLIER) /\ FnIdle
InitCap ==
  LoopInitOf(CatalogCap, CapSizes, FALSE, {0}, START_EARLIER) /\ FnIdle
InitEcon ==
  /\ \E st \in StartTimes :
       LoopInitOf(CatalogMain, 0..MaxReq, FALSE, HarnessCosts, st)
  /\ EconInit
\* bootstrap steps may return error results; every response carries one
\* tool call
InitBoot ==
  /\ LoopInitIn(CatalogMain, {1}, FALSE, {0}, START_EARLIER, NoEnv,
                [Plain EXCEPT !.bootErrors = TRUE])
  /\ FnIdle
\* either balance query may fail or answer, with and without the direct
\* OpenAI key; responses carry at most one tool call
InitRefresh ==
  /\ \E key \in BOOLEAN :
       LoopInitIn(CatalogMain, {0, 1}, FALSE, {0}, START_EARLIER,
                  [NoEnv EXCEPT !.OPENAI_API_KEY = key],
                  [Plain EXCEPT !.credits = {<< >>, << 500 >>},
                                !.usdc = {<< >>, << 7 >>}])
  /\ FnIdle
\* every turn is estimated at four cents and carries one tool call; the
\* backend reports no cost, one cent or nothing to pay
InitBilling ==
  /\ LoopInitIn(CatalogMain, {1}, FALSE, {4}, START_EARLIER, NoEnv,
                [Plain EXCEPT !.backendCosts = {<< >>, << 1 >>, << 0 >>}])
  /\ FnIdle
\* the turns table is followed
InitSnapshot ==
  /\ LoopInitIn(CatalogMain, {0, 1}, FALSE, {0}, START_EARLIER, NoEnv,
                [Plain EXCEPT !.counting = TRUE])
  /\ FnIdle
\* messages arrive in the inbox; every response carries one tool call
InitInbox ==
  /\ LoopInitIn(CatalogMain, {1}, FALSE, {0}, START_EARLIER, NoEnv,
                [Plain EXCEPT !.messages = MaxMessages])
  /\ FnIdle
\* fewer messages, and what became of each is followed
InitRetry ==
  /\ LoopInitIn(CatalogMain, {1}, FALSE, {0}, START_EARLIER, NoEnv,
                [Plain EXCEPT !.messages = MaxFollowed, !.history = TRUE])
  /\ FnIdle
\* responses carry at most one tool call; the executor may throw
InitLive ==
  LoopInitOf(CatalogMain, {0, 1}, FALSE, {0}, START_EARLIER) /\ FnIdle
\* the backend asks for the tools of the bootstrap phase, one call a
\* turn; bootstrap steps may throw
InitGate ==
  LoopInitOf(CatalogGate, GateSizes, FALSE, {0}, START_EARLIER) /\ FnIdle
\* the backend asks for nothing but check_economics, which the bootstrap
\* phase has run: one call a turn, or as many as the per-turn cap and more
InitBlocked ==
  LoopInitOf(CatalogBlocked, BlockedSizes, FALSE, {0}, START_EARLIER)
    /\ FnIdle
\* every response carries two tool calls: a once-per-wake tool or a
\* command, each of which may return an error or throw
InitFailed ==
  LoopInitOf(CatalogSession, FailedSizes, FALSE, {0}, START_EARLIER)
    /\ FnIdle
InitSocial == LoopInit(CatalogMain) /\ SocialInit
InitTier == LoopInit(CatalogMain) /\ TierInit
InitAnthropic == LoopInit(CatalogMain) /\ AnthropicInit
InitClient ==
  /\ \E gateway \in BOOLEAN :
       LoopInitIn(CatalogMain, 0..MaxReq, FALSE, {0}, START_EARLIER,
                  [NoEnv EXCEPT !.MOAT_GATEWAY_URL = gateway], Plain)
  /\ ClientInit
InitScan == LoopInit(CatalogMain) /\ ScanInit
\* one caller of scanLandscape; any of the scanners may fail
InitJoin ==
  /\ LoopInitIn(CatalogMain, 0..MaxReq, FALSE, {0}, START_EARLIER, NoEnv,
                [Plain EXCEPT !.branchFailures = TRUE])
  /\ ScanInitOf(1)

Next ==
  \/ Wake
  \/ BootstrapStep
  \/ LoopTop
  \/ InferReturn
  \/ InferThrow
  \/ ProcessToolCall
  \/ PersistTurn
  \/ Tick

NextEcon ==
  \/ CostRecorded
  \/ EarningsCredited
  \/ SnapshotTaken
  \/ SpawnGateChecked
  \/ Tick

NextAnthropic == AnthropicRequest \/ AnthropicRespond

NextClient == SetLowComputeMode \/ Chat

NextScan ==
  \/ \E i \in DOMAIN scanPc : ScanEnter(i)
  \/ \E i \in DOMAIN scanPc : ScanComplete(i)
  \/ \E i \in DOMAIN scanPc : ScanAgain(i)
  \/ ScanTick

NextSocial == CheckSocialInbox \/ PollReturns \/ PollThrows

\* the executor may also throw, which the catch blocks handle
NextThrow == Next \/ BootstrapThrow \/ ToolThrow

\* messages are inserted into the inbox from outside the loop
NextInbox == Next \/ ToolThrow \/ InboxArrives

Spec == Init /\ [][Next]_vars
SpecStuck == InitStuck /\ [][Next]_vars
SpecOnce == InitOnce /\ [][Next]_vars
SpecExec == InitExec /\ [][Next]_vars
SpecSession == InitSession /\ [][Next]_vars
SpecCost == InitCost /\ [][Next]_vars
SpecCap == InitCap /\ [][Next]_vars
SpecThrow == Init /\ [][NextThrow]_vars
SpecBoot == InitBoot /\ [][NextThrow]_vars
SpecRefresh == InitRefresh /\ [][Next]_vars
SpecBilling == InitBilling /\ [][Next]_vars
SpecSnapshot == InitSnapshot /\ [][Next]_vars
SpecInbox == InitInbox /\ [][NextInbox]_vars
SpecRetry == InitRetry /\ [][NextInbox]_vars
SpecEcon == InitEcon /\ [][NextEcon]_vars
SpecTier == InitTier /\ [][ApplyTier]_vars
SpecAnthropic == InitAnthropic /\ [][NextAnthropic]_vars
SpecClient == InitClient /\ [][NextClient]_vars
SpecScan == InitScan /\ [][NextScan]_vars
SpecJoin == InitJoin /\ [][NextScan]_vars
SpecGate == InitGate /\ [][NextThrow]_vars
SpecBlocked == InitBlocked /\ [][Next]_vars
SpecFailed == InitFailed /\ [][NextThrow]_vars
SpecSocial == InitSocial /\ [][NextSocial]_vars

\* the steps runAgentLoop takes by itself once it is called: every awaited
\* call of the bootstrap, the inference backend and the executor settles
\* (returns or throws) and the runtime then resumes the function
SessionStep ==
  \/ BootstrapStep
  \/ BootstrapThrow
  \/ LoopTop
  \/ InferReturn
  \/ InferThrow
  \/ ProcessToolCall
  \/ ToolThrow
  \/ PersistTurn

\* wake sessions one after the other, at one reading of the clock
NextLive == Wake \/ SessionStep

\* a wake session whose calls all settle: the wake signal is left to the
\* environment, the session's own steps are taken as long as one is
\* possible
SpecLive == InitLive /\ [][NextLive]_vars /\ WF_vars(SessionStep)

\* ------------------------------------------------------------------------
\* Properties
\* ------------------------------------------------------------------------
Stopped(reason) == pc = "stopped" /\ endReason = reason

\* a step of PersistTurn / of ProcessToolCall
PersistStep == pc = "tools" /\ persistedTurns' = persistedTurns + 1
ToolStep == pc = "tools" /\ callCount' = callCount + 1
NewResult == toolCalls'[Len(toolCalls')]

OnceKeys == { k \in GatedKeys : k[1] \in ONCE_PER_WAKE_TOOLS }
ExecKeys == { k \in GatedKeys : k[1] = "exec" }

\* C1: whenever the three most recent persisted loop turns of a session are
\* single-call turns with one fingerprint, the session has ended at the
\* third of them: AgentState is sleeping, sleep_until is the clock at that
\* moment plus 10 minutes, and the loop is not running (no further turn or
\* inference call).
Thm_C1 ==
  runLen >= 3 =>
    /\ Stopped("stuck")
    /\ agentState = "sleeping"
    /\ sleep_until = endTime + 10

\* three exec turns whose commands differ after the 80th character ended the
\* session
Wit_C1 ==
  /\ Stopped("stuck")
  /\ runLen = 3
  /\ runFp = << "exec", SubSeq(BOOT_CMD_TOOLING, 1, 80) >>
  /\ {CMD_LONG_X, CMD_LONG_Y} \subseteq executedCommands

\* C2: a turn with two or more tool-call results sets the repetition counter
\* to 0 and clears the remembered fingerprint, and the stuck-loop sleep is
\* forced only when the three most recent turns are single-call turns with
\* one fingerprint.
C2Step ==
  (PersistStep /\ Len(toolCalls) >= 2) =>
    (consecutiveSameTool' = 0 /\ lastToolName' = NoFingerprint)

Cex_C2 == [][C2Step]_vars /\ [](endReason = "stuck" => runLen >= 3)

\* C3: the executor is invoked at most once per session for a once-per-wake
\* tool; a request for a tool it was already invoked for yields a BLOCKED
\* result with durationMs 0, without an executor invocation and without a
\* change of the once-per-wake set or the command-dedup set.
C3Step ==
  (ToolStep /\ NewResult.name \in ONCE_PER_WAKE_TOOLS
            /\ Invocations(<< NewResult.name, << >> >>) >= 1) =>
    /\ NewResult.blocked
    /\ NewResult.durationMs = 0
    /\ loopInvoked' = loopInvoked
    /\ turnExecs' = turnExecs
    /\ calledOnceTools' = calledOnceTools
    /\ executedCommands' = executedCommands

C4Step ==
  (ToolStep /\ NewResult.name = "exec" /\ NewResult.command # << >>) =>
    LET k == << "exec", Trim(NewResult.command) >> IN
      IF loopInvoked[k] >= 1
      THEN /\ NewResult.blocked
           /\ NewResult.durationMs = 0
           /\ loopInvoked' = loopInvoked
           /\ turnExecs' = turnExecs
      ELSE /\ ~NewResult.blocked
           /\ loopInvoked'[k] = 1
           /\ turnExecs' = turnExecs + 1

Thm_C5 ==
  /\ persistedTurns <= 20
  /\ persistedTurns = 20 =>
       (pc = "stopped" /\ endReason \in {"stuck", "sleep", "cap"})
  /\ endReason = "cap" =>
       /\ persistedTurns = 20
       /\ pc = "stopped"
       /\ agentState = "sleeping"
       /\ sleep_until = endTime + 10

Wit_C5 == Stopped("cap") /\ persistedTurns = 20

\* C6: a turn whose response has no tool calls and finish reason "stop",
\* persisted before the 20th turn of the session, ends the session with
\* AgentState sleeping and sleep_until = clock + 5 minutes, and the executor
\* was not invoked in that turn.
C6Step ==
  (PersistStep /\ respLen = 0 /\ finishReason = "stop"
               /\ persistedTurns + 1 < 20) =>
    /\ pc' = "stopped"
    /\ endReason' = "idle"
    /\ agentState' = "sleeping"
    /\ sleep_until' = now + 5
    /\ turnExecs = 0
    /\ toolCalls = << >>

Thm_C6 == [][C6Step]_vars

Wit_C6 == Stopped("idle") /\ sleep_until = endTime + 5

\* C7: the rules are evaluated in the order stuck-loop, explicit sleep, turn
\* cap, idle and the first match wins: stuck-loop together with a successful
\* sleep call gets the controller's 10-minute deadline; turn cap together
\* with idle gets the 10-minute deadline; explicit sleep together with the
\* turn cap ends the session without a deadline written by the controller.
HasSuccessfulSleep(calls) ==
  \E i \in 1..Len(calls) :
    calls[i].name = "sleep" /\ ~calls[i].blocked /\ ~calls[i].error

C7Step ==
  PersistStep =>
    LET stuck == ObservedRun(toolCalls, runFp, runLen).len >= 3
        slept == HasSuccessfulSleep(toolCalls)
        cap == persistedTurns + 1 >= 20
        idle == respLen = 0 /\ finishReason = "stop"
    IN /\ (stuck /\ slept) =>
            (pc' = "stopped" /\ agentState' = "sleeping"
               /\ sleep_until' = now + 10)
       /\ (~stuck /\ ~slept /\ cap /\ idle) =>
            (pc' = "stopped" /\ agentState' = "sleeping"
               /\ sleep_until' = now + 10)
       /\ (~stuck /\ slept /\ cap) =>
            (pc' = "stopped" /\ agentState' = "sleeping"
               /\ sleep_until' = sleep_until)

Cex_C7 == [][C7Step]_vars

\* C8: while the session runs the consecutive-error counter equals the
\* number of failed iterations since the last iteration that completed; the
\* session is ended by the error rule exactly when that number reaches 5,
\* with AgentState sleeping and sleep_until = clock + 5 minutes.
Thm_C8 ==
  /\ pc # "stopped" => consecutiveErrors = failStreak
  /\ failStreak <= 5
  /\ failStreak = 5 => Stopped("errors")
  /\ endReason = "errors" =>
       /\ failStreak = 5
       /\ pc = "stopped"
       /\ agentState = "sleeping"
       /\ sleep_until = endTime + 5

\* five failures in a row after at least one completed loop turn
Wit_C8 == Stopped("errors") /\ persistedTurns > Len(bootstrapSteps)

\* C9: whenever runAgentLoop has returned, the persisted AgentState is
\* sleeping or dead.
Cex_C9 ==
  (pc = "stopped" /\ endReason # "none") =>
    agentState \in {"sleeping", "dead"}

\* C10: getRunwayTier is monotonic: r1 < r2 implies that the tier of r1 is
\* not safer than the tier of r2.
Thm_C10 ==
  (t1 # "none" /\ r1 < r2) => TierRank(t1) <= TierRank(t2)

Wit_C10 == r1 < r2 /\ t1 = "critical" /\ t2 = "low_compute"

\* C14: a persisted turn that holds a successful call to the sleep tool and
\* that neither the observed run nor the controller's counter reports as a
\* stuck loop ends the session with AgentState sleeping and leaves
\* sleep_until as the tool wrote it, whatever the number and order of the
\* tool calls of the turn.
C14Step ==
  (PersistStep
     /\ HasSuccessfulSleep(toolCalls)
     /\ ObservedRun(toolCalls, runFp, runLen).len < 3
     /\ NextRepetition(toolCalls, lastToolName, consecutiveSameTool).count
          < STUCK_THRESHOLD) =>
    /\ pc' = "stopped"
    /\ endReason' = "sleep"
    /\ agentState' = "sleeping"
    /\ sleep_until' = sleep_until

Cex_C14 == [][C14Step]_vars

\* C15: a persisted loop turn with zero tool calls that does not end the
\* session sets the repetition counter to 0.
C15Step ==
  (PersistStep /\ respLen = 0 /\ toolCalls = << >> /\ pc' = "top") =>
    consecutiveSameTool' = 0

Cex_C15 == [][C15Step]_vars

\* C16: at a runway equal to a configured boundary getRunwayTier returns the
\* higher of the two adjacent tiers; at any other runway it returns the
\* highest tier whose lower bound the runway exceeds.
TierBounds == { RUNWAY_TIERS.normal, RUNWAY_TIERS.low_compute,
                RUNWAY_TIERS.critical }

TierAbove(bound) ==
  CASE bound = RUNWAY_TIERS.normal -> "normal"
    [] bound = RUNWAY_TIERS.low_compute -> "low_compute"
    [] OTHER -> "critical"

HighestExceeded(r) ==
  IF \E b \in TierBounds : r > b
  THEN TierAbove(CHOOSE b \in TierBounds :
                   r > b /\ \A c \in TierBounds : r > c => c <= b)
  ELSE "dead"

Cex_C16 ==
  t1 # "none" =>
    IF r1 \in TierBounds
    THEN t1 = TierAbove(r1)
    ELSE t1 = HighestExceeded(r1)

\* C20: when the tier computed at the start of an iteration is dead, the
\* session stops in that iteration with AgentState dead: the step is taken
\* from the top of the loop, it persists no turn and invokes no tool, the
\* inference call is never reached, and nothing is persisted or executed
\* until a new session is started.
C20Step ==
  /\ (tier' = "dead" /\ tier # "dead") =>
       /\ pc = "top" /\ pc' = "stopped"
       /\ persistedTurns' = persistedTurns
       /\ loopInvoked' = loopInvoked
  /\ Stopped("dead") =>
       \/ pc' = "bootstrap"
       \/ /\ pc' = "stopped" /\ agentState' = "dead"
          /\ persistedTurns' = persistedTurns
          /\ loopInvoked' = loopInvoked

Thm_C20 ==
  /\ [](tier = "dead" =>
          /\ Stopped("dead")
          /\ agentState = "dead"
          /\ turnExecs = 0 /\ respLen = 0 /\ toolCalls = << >>)
  /\ [][C20Step]_vars

\* the dead tier arrived after completed loop turns and the clock moved on
\* while the session stayed stopped
Wit_C20 ==
  /\ Stopped("dead")
  /\ persistedTurns > Len(bootstrapSteps)
  /\ now > endTime

\* C19: the tool calls of a response are processed one per step in the
\* order of the response (the i-th result of the turn carries the id of the
\* i-th requested call, earlier results are never touched); a turn never
\* holds more than 10 results; when the turn is persisted it holds exactly
\* the results of the first min(requested, 10) calls, each either executed
\* or blocked, and the executor was invoked for none of the calls beyond.
BlockedCount(calls) ==
  Cardinality({ i \in 1..Len(calls) : calls[i].blocked })

C19Step ==
  /\ ToolStep =>
       /\ Len(toolCalls') = Len(toolCalls) + 1
       /\ SubSeq(toolCalls', 1, Len(toolCalls)) = toolCalls
       /\ NewResult.id = callCount + 1
       /\ turnExecs' \in {turnExecs, turnExecs + 1}
  /\ PersistStep =>
       /\ Len(toolCalls) = Min(respLen, 10)
       /\ turnExecs + BlockedCount(toolCalls) = Min(respLen, 10)

Thm_C19 ==
  /\ [](/\ Len(toolCalls) <= 10
        /\ Len(toolCalls) = callCount
        /\ \A i \in 1..Len(toolCalls) : toolCalls[i].id = i)
  /\ [][C19Step]_vars

\* a response with 12 requested calls: the first was executed, the 10th was
\* blocked, and the turn is about to be persisted with 10 results
Wit_C19 ==
  /\ pc = "tools"
  /\ respLen = MAX_TOOL_CALLS_PER_TURN + 2
  /\ callCount = 10
  /\ Len(toolCalls) = 10
  /\ ~toolCalls[1].blocked
  /\ toolCalls[10].blocked

\* C12: every start of runAgentLoop leaves the once-per-wake set and the
\* command-dedup set empty and the repetition counter at 0 with no
\* remembered fingerprint; a request whose tool or command the executor was
\* invoked for in an earlier session only is not blocked; and the repetition
\* counter never exceeds the number of loop turns of the current session, so
\* a stuck-loop sleep is forced by turns of the current session alone.
WakeStep == pc = "stopped" /\ pc' = "bootstrap"

C12Step ==
  /\ WakeStep =>
       /\ calledOnceTools' = {}
       /\ executedCommands' = {}
       /\ consecutiveSameTool' = 0
       /\ lastToolName' = NoFingerprint
  /\ (ToolStep /\ Gated(NewResult) /\ Invocations(GateKey(NewResult)) = 0) =>
       ~NewResult.blocked

Thm_C12 ==
  /\ [](pc # "stopped" =>
          consecutiveSameTool <= persistedTurns - Len(bootstrapSteps)
            \/ (pc = "bootstrap" /\ consecutiveSameTool = 0))
  /\ [][C12Step]_vars

\* check_credits and the command "a" were run in an earlier session, and
\* both were run again in the current one
Wit_C12 ==
  /\ << "check_credits", << >> >> \in earlier
  /\ << "exec", CMD_A >> \in earlier
  /\ loopInvoked[<< "check_credits", << >> >>] = 1
  /\ loopInvoked[<< "exec", CMD_A >>] = 1

\* C18: the value of total_spent_cents never decreases; the step that
\* persists a loop turn replaces it by the decimal text of its previous value
\* plus the cost of that turn, and no other step of the wake loop writes it.
C18Step ==
  /\ Number(total_spent_cents') >= Number(total_spent_cents)
  /\ IF PersistStep
     THEN /\ Number(total_spent_cents') = Number(total_spent_cents) + costCents
          /\ total_spent_cents' # << >>
     ELSE total_spent_cents' = total_spent_cents

Thm_C18 == [][C18Step]_vars

\* costs were recorded in more than one session and the total reached two
\* digits
Wit_C18 ==
  /\ total_spent_cents = << "1", "2" >>
  /\ persistedTurns = Len(bootstrapSteps) + 1
  /\ pc = "top"

\* C11: every snapshot has balanceCents = max(budgetCents - totalSpentCents
\* + totalEarnedCents, 0), where the three amounts are the configured budget
\* and the totals held by the store when it was taken; its runway is 99999
\* when the burn rate is not positive and otherwise the quotient of that
\* clamped balance and the burn rate, and it is never negative.
IsSnapshot(res) == res.kind = "snapshot"

C11Step ==
  (IsSnapshot(econResult') /\ econResult' # econResult) =>
    /\ econResult'.budgetCents = budgetCents
    /\ econResult'.totalSpentCents = Number(total_spent_cents)
    /\ econResult'.totalEarnedCents = Number(total_earned_cents)

Thm_C11 ==
  /\ [](IsSnapshot(econResult) =>
          LET unclamped == econResult.budgetCents - econResult.totalSpentCents
                             + econResult.totalEarnedCents
              clamped == IF unclamped > 0 THEN unclamped ELSE 0
          IN /\ econResult.balanceCents = clamped
             /\ econResult.runwayHours[1] >= 0
             /\ econResult.runwayHours[2] > 0
             /\ IF econResult.burnRatePerHour[1] > 0
                THEN FracMul(econResult.runwayHours,
                             econResult.burnRatePerHour) = Whole(clamped)
                ELSE econResult.runwayHours = Whole(99999))
  /\ [][C11Step]_vars

\* a snapshot taken after costs and earnings were recorded, with more spent
\* than budget and earnings together
Wit_C11 ==
  /\ IsSnapshot(econResult)
  /\ econResult.totalSpentCents = 10
  /\ econResult.totalEarnedCents = 5
  /\ econResult.budgetCents = 4
  /\ econResult.burnRatePerHour[1] > 0

\* C17: the spawn gate reports ownMonthlyCost = burnRate * 720 and threshold
\* = ownMonthlyCost + numChildren * 0.8 * ownMonthlyCost; canSpawn is true
\* exactly when the clamped balance is at least the threshold; the deficit is
\* threshold - balance when it is not, and 0 when it is.
IsGate(res) == res.kind = "gate"

C17Step ==
  (IsGate(econResult') /\ econResult' # econResult) =>
    LET own == FracMul(calculateBurnRate(total_spent_cents, start_time, now),
                       Whole(720))
        unclamped == budgetCents - Number(total_spent_cents)
                       + Number(total_earned_cents)
    IN /\ econResult'.ownMonthlyCost = own
       /\ econResult'.balanceCents = IF unclamped > 0 THEN unclamped ELSE 0

Thm_C17 ==
  /\ [](IsGate(econResult) =>
          LET own == econResult.ownMonthlyCost
              threshold ==
                FracAdd(own,
                        FracMul(FracMul(Whole(econResult.numChildren),
                                        Frac(4, 5)), own))
              balance == Whole(econResult.balanceCents)
          IN /\ econResult.spawnThreshold = threshold
             /\ econResult.canSpawn = FracLeq(threshold, balance)
             /\ econResult.deficit =
                  IF econResult.canSpawn THEN Whole(0)
                  ELSE FracSub(threshold, balance)
             /\ econResult.canSpawn = (econResult.deficit = Whole(0)))
  /\ [][C17Step]_vars

\* a balance that equals a positive threshold exactly: spawning is allowed
Wit_C17 ==
  /\ IsGate(econResult)
  /\ econResult.numChildren = 1
  /\ econResult.spawnThreshold = Whole(6480)
  /\ econResult.balanceCents = 6480
  /\ econResult.canSpawn

\* ------------------------------------------------------------------------
\* Anthropic round trip
\* ------------------------------------------------------------------------
\* place in body.messages of the message made of messages[i]
SentIndex(i) == Cardinality({ j \in 1..i : messages[j].role # "system" })

\* place of the k-th tool call of msg among the content blocks made of it
BlockIndex(msg, k) == k + (IF msg.content # << >> THEN 1 ELSE 0)

IsObjectText(raw) == JSONParse(raw).ok /\ JSONParse(raw).val.t = "object"

\* the endpoint answered with the content sent for messages[i], and
\* chatViaAnthropic returned
EchoOf(i) ==
  /\ response.kind = "response"
  /\ data.content = body.messages[SentIndex(i)].blocks

\* the tool message answering the call became a user message with one
\* tool_result block that names the call
ResultSent(j, id) ==
  LET sent == body.messages[SentIndex(j)] IN
    /\ sent.role = "user"
    /\ sent.isBlocks
    /\ Len(sent.blocks) = 1
    /\ sent.blocks[1].type = "tool_result"
    /\ sent.blocks[1].tool_use_id = id

RoundTrip(i, k) ==
  LET call == messages[i].tool_calls[k]
      sent == body.messages[SentIndex(i)]
      block == sent.blocks[BlockIndex(messages[i], k)]
  IN  /\ sent.role = "assistant"
      /\ block.type = "tool_use"
      /\ block.id = call.id
      /\ block.name = call.function.name
      /\ EchoOf(i) =>
            LET back == response.toolCalls[k] IN
              /\ back.id = call.id
              /\ back.function.name = call.function.name
              /\ JSONParse(back.function.arguments).ok
              /\ JSONParse(back.function.arguments).val
                   = JSONParse(call.function.arguments).val
      /\ \A j \in 1..Len(messages) :
            (messages[j].role = "tool" /\ messages[j].tool_call_id = call.id)
              => ResultSent(j, call.id)

\* C13: a tool call of an assistant message whose argument text is a JSON
\* object becomes a tool_use block with its id and name; mapped back by the
\* response normalisation it has the same id and name and an argument text
\* that parses to the object the original text parses to; the tool message
\* that answers it becomes a user message with one tool_result block naming
\* the call id
Thm_C13 ==
  body.kind = "body" =>
    \A i \in 1..Len(messages) :
      messages[i].role = "assistant" =>
        \A k \in 1..Len(messages[i].tool_calls) :
          IsObjectText(messages[i].tool_calls[k].function.arguments)
            => RoundTrip(i, k)

\* a call whose argument text repeats a key went through the round trip and
\* came back as another text, and its tool message was sent
Wit_C13 ==
  /\ Len(messages) = 4
  /\ messages[3].role = "assistant"
  /\ messages[3].tool_calls # << >>
  /\ messages[3].tool_calls[1].function.arguments = ARGS_REPEATED_KEY
  /\ messages[4].tool_call_id = messages[3].tool_calls[1].id
  /\ EchoOf(3)
  /\ response.toolCalls[1].function.arguments # ARGS_REPEATED_KEY
  /\ ResultSent(4, messages[3].tool_calls[1].id)

\* ------------------------------------------------------------------------
\* Tier handling before the inference call
\* ------------------------------------------------------------------------
\* C21: whenever the loop is at its inference call, low-compute mode is on
\* iff the tier of the iteration is critical or low_compute, and the
\* persisted AgentState is critical, low_compute or running for the tiers
\* critical, low_compute and normal
Thm_C21 ==
  pc = "infer" =>
    /\ tier \in {"critical", "low_compute", "normal"}
    /\ lowComputeMode <=> tier \in {"critical", "low_compute"}
    /\ tier = "critical" => agentState = "critical"
    /\ tier = "low_compute" => agentState = "low_compute"
    /\ tier = "normal" => agentState = "running"

\* an inference call of a later iteration under the critical tier
Wit_C21 ==
  /\ pc = "infer"
  /\ tier = "critical"
  /\ lowComputeMode
  /\ agentState = "critical"
  /\ turnsThisWake > Len(bootstrapSteps)

\* C22: after any sequence of setLowComputeMode calls the active model and
\* the token ceiling are those of the last call's argument alone: the
\* low-compute model and the low-compute ceiling after an enabling call, the
\* configured default model and ceiling after a disabling call, however
\* many enabling calls went before; the options are never changed.
LastModeCall == modeCalls[Len(modeCalls)]

Thm_C22 ==
  modeCalls # << >> =>
    /\ getDefaultModel(client) =
         IF LastModeCall THEN LowComputeModelOf(client.options)
         ELSE client.options.defaultModel
    /\ client.maxTokens =
         IF LastModeCall THEN LOW_COMPUTE_MAX_TOKENS
         ELSE client.options.maxTokens
    /\ client = setLowComputeMode(NewClient(client.options), LastModeCall)

Wit_C22 ==
  /\ modeCalls = << TRUE, TRUE, FALSE >>
  /\ client.options.maxTokens = 8192
  /\ client = NewClient(client.options)

\* C27: every chat call is routed by the stated priority: a named provider
\* (Anthropic or OpenAI) whose credential is present and whose model prefix
\* matches is used directly; the gateway is used only when no named provider
\* matched, a gateway URL is configured and the model is of the OpenAI
\* family; every other call goes to the default backend.
NamedProvider(request) == request.backend \in {"anthropic", "openai"}

ClaimedRoute(request) ==
  IF request.backend = "anthropic" THEN "chatViaAnthropic"
  ELSE IF request.backend = "openai" THEN "chatViaOpenAiCompatible"
  ELSE IF processEnv.MOAT_GATEWAY_URL /\ IsOpenAiModel(request.model)
    THEN "chatViaMoatGateway"
  ELSE "chatViaOpenAiCompatible"

Cex_C27 ==
  chatRequest.kind = "request" =>
    /\ chatRequest.backend =
         resolveInferenceBackend(chatRequest.model, client.options)
    /\ chatRequest.via = ClaimedRoute(chatRequest)
    /\ chatRequest.via = "chatViaMoatGateway" => ~NamedProvider(chatRequest)

\* C29: whatever maxTokens is configured, the token ceiling in force after
\* an enabling call is at most the ceiling in force after a disabling call,
\* which is the configured one.
Cex_C29 ==
  (modeCalls # << >> /\ LastModeCall) =>
    client.maxTokens <= setLowComputeMode(client, FALSE).maxTokens

\* C28: scans are at least a cache window apart, whether or not an earlier
\* scan is still in flight when scanLandscape is invoked: any two fan-outs
\* start at least SCAN_CACHE_TTL minutes apart, any two snapshots are
\* persisted at least SCAN_CACHE_TTL minutes apart, and no fan-out is under
\* way within the window of the cached scan.
Cex_C28 ==
  /\ \A i, j \in 1..Len(fanOuts) :
       i < j => fanOuts[j] - fanOuts[i] >= SCAN_CACHE_TTL
  /\ \A i, j \in 1..Len(landscapeSnapshots) :
       i < j =>
         landscapeSnapshots[j].at - landscapeSnapshots[i].at
           >= SCAN_CACHE_TTL
  /\ \A i \in DOMAIN scanPc :
       scanPc[i] = "scanning" => ~CacheFresh(lastScanResult, scanClock)

\* C23: in every wake session the bootstrap phase attempts its steps in the
\* declared order and all of them: the k-th entry of the bootstrap context
\* is the output of the k-th declared step, an error text whenever that step
\* returned an error result or threw, every declared step has been invoked
\* once the phase is over, and the position reaches the loop, and so the
\* inference call, only after the last step has finished.
BootstrapDone ==
  /\ bootIdx = Len(bootstrapSteps) + 1
  /\ Len(bootstrapResults) = Len(bootstrapSteps)
  /\ \A k \in 1..Len(bootstrapSteps) :
       GateKey(bootstrapSteps[k]) \in bootInvoked

Thm_C23 ==
  /\ Len(bootOutcomes) = Len(bootstrapResults)
  /\ \A k \in 1..Len(bootstrapResults) :
       bootstrapResults[k] =
         Output(bootstrapSteps[k].name, bootOutcomes[k] # "result")
  /\ pc = "bootstrap" => Len(bootstrapResults) = bootIdx - 1
  /\ pc \in {"top", "infer", "tools"} => BootstrapDone

Wit_C23 ==
  /\ pc = "infer"
  /\ bootOutcomes = << "thrown", "error", "result" >>
  /\ BootstrapDone

\* C24: every bootstrap step that finishes, with a result, an error result
\* or a thrown exception, persists exactly one turn, and that turn is the
\* synthetic turn with inputSource system and costCents 0.
Cex_C24 ==
  [][(pc = "bootstrap" /\ bootIdx' = bootIdx + 1) =>
       /\ persistedTurns' = persistedTurns + 1
       /\ lastTurn' = SyntheticTurn]_vars

\* C26: a failing balance query never reaches the controller.  After every
\* refresh, at wake-up and at the top of an iteration, each balance is the
\* value its query returned, or 0 if that query failed, whatever the other
\* query did (with the direct OpenAI key no query is made); the step that
\* refreshes at the top of an iteration also evaluates the tier, leaves the
\* consecutive-error counter as it was, and ends the session only if the
\* tier is dead.
Degraded(outcome) == IF outcome = << >> THEN 0 ELSE outcome[1]

Refreshed ==
  IF processEnv.OPENAI_API_KEY
  THEN ~queried.asked /\ financial.creditsCents = DIRECT_CREDITS
  ELSE /\ queried.asked
       /\ financial.creditsCents = Degraded(queried.credits)
       /\ financial.usdcBalance = Degraded(queried.usdc)

Sleeping == sleep_until # 0 /\ sleep_until > now

Thm_C26 ==
  [][/\ (pc = "stopped" /\ pc' # "stopped") =>
          Refreshed' /\ pc' = "bootstrap"
     /\ (pc = "top" /\ pc' # "top" /\ ~Sleeping) =>
          /\ Refreshed'
          /\ consecutiveErrors' = consecutiveErrors
          /\ tier' \in SurvivalTiers
          /\ pc' = IF tier' = "dead" THEN "stopped" ELSE "infer"]_vars

Wit_C26 ==
  /\ pc = "infer"
  /\ turnsThisWake > Len(bootstrapSteps)
  /\ queried = [asked |-> TRUE, credits |-> << >>, usdc |-> << 7 >>]
  /\ financial = [creditsCents |-> 0, usdcBalance |-> 7]
  /\ tier = "normal"

\* C25: when a loop turn is persisted, the cost figure of the turn (the
\* backend's figure if the response carries one, the local estimate only
\* if it carries none) is the cost stored in the persisted Turn and the
\* amount added to total_spent_cents.
CostFigure == IF responseCost # << >> THEN responseCost[1] ELSE costCents

Cex_C25 ==
  [][PersistStep =>
       /\ lastTurn'.costCents = CostFigure
       /\ Number(total_spent_cents') =
            Number(total_spent_cents) + CostFigure]_vars

\* C30: persisting a loop turn counts it in the turns table, which holds the
\* turns of all sessions, synthetic bootstrap turns included.  The snapshot
\* block is entered iff the new count is a multiple of 5; a snapshot that is
\* computed and stored is the economics snapshot of the state just
\* recorded; no snapshot is stored at any other count; and whatever fails
\* inside the block, the turn stays persisted and the consecutive-error
\* counter does not grow.
Thm_C30 ==
  [][(PersistStep /\ scenario.counting) =>
       /\ turnCount' = turnCount + 1
       /\ (snapshotOutcome' # "none") <=> (turnCount' % 5 = 0)
       /\ snapshotOutcome' = "saved" =>
            /\ snapshots' = snapshots + 1
            /\ last_economics_snapshot' =
                 getEconomicsSnapshot(total_spent_cents', total_earned_cents,
                                      budgetCents, start_time, now)
       /\ snapshotOutcome' = "inserted" =>
            /\ snapshots' = snapshots + 1
            /\ last_economics_snapshot' = last_economics_snapshot
       /\ snapshotOutcome' \in {"none", "failed"} =>
            /\ snapshots' = snapshots
            /\ last_economics_snapshot' = last_economics_snapshot
       /\ lastTurn'.inputSource = currentInput
       /\ consecutiveErrors' <= consecutiveErrors]_vars

\* the fifth turn of the table is the second loop turn of the first session
Wit_C30 ==
  /\ turnCount = 5
  /\ persistedTurns = 5
  /\ snapshotOutcome = "failed"
  /\ snapshots = 0
  /\ lastTurn.inputSource # "system"
  /\ pc = "top"

\* C31: the inbox is read only by the pass from the top of an iteration
\* to the inference call, and only if that iteration starts with no pending
\* input: it then pulls as many unprocessed messages as there are, but at
\* most 5, marks exactly those processed and makes them the one input of
\* the iteration, with source agent.  An iteration that starts with a
\* pending input keeps that input, pulls nothing and marks nothing; no
\* other step marks a message.
PullStep == pc = "top" /\ pc' # "top" /\ ~Sleeping

\* the input the iteration was left with, and the messages folded into it
IterInput == IF pc = "stopped" THEN pendingInput ELSE currentInput
IterMessages == IF pc = "stopped" THEN pendingMessages ELSE currentMessages

Thm_C31 ==
  [][LET marked == inboxProcessed' \ inboxProcessed
         open == Unprocessed(inboxArrived, inboxProcessed)
     IN  /\ inboxProcessed \subseteq inboxProcessed'
         /\ ~PullStep => marked = {}
         /\ (PullStep /\ pendingInput # "none") =>
              marked = {} /\ IterInput' = pendingInput
         /\ (PullStep /\ pendingInput = "none") =>
              /\ marked \subseteq open
              /\ Cardinality(marked) = Min(5, Cardinality(open))
              /\ IterMessages' = marked
              /\ IterInput' = IF marked = {} THEN "none" ELSE "agent"]_vars

Wit_C31 ==
  /\ pc = "infer"
  /\ currentInput = "agent"
  /\ Cardinality(currentMessages) = 5
  /\ inboxProcessed = currentMessages
  /\ inboxArrived = 6

\* C32: the finish reason of a normalised Anthropic response is tool_calls
\* for the stop reason tool_use and "stop" for every other stop reason, so
\* a response with text, no tool calls and the stop reason end_turn meets
\* the controller's idle rule.
Cex_C32 ==
  response.kind = "response" =>
    /\ response.finishReason =
         IF data.stop_reason = << "tool_use" >> THEN "tool_calls" ELSE "stop"
    /\ (Len(response.toolCalls) = 0 /\ data.stop_reason = << "end_turn" >>) =>
         TerminationRule(0, << >>, 1, Len(response.toolCalls),
                         response.finishReason) = "idle"

\* C33: whichever of the four branches are rejected, the join completes
\* and the invocation persists exactly one snapshot and returns it: the
\* snapshot holds the agents and services of the registry scans that were
\* fulfilled, tagged with their network, the bounties of the boards that
\* were fulfilled, highest reward first, and nothing for a rejected branch.
Fulfilled(row, branch) == row.settled[branch] = "fulfilled"

RegistryPart(row, branch) ==
  IF Fulfilled(row, branch) THEN SampleOf(branch) ELSE EMPTY_REGISTRY

BountyPart(row, branch) ==
  IF Fulfilled(row, branch) THEN SampleOf(branch) ELSE << >>

ElementsOf(seq) == { seq[k] : k \in 1..Len(seq) }

JoinedRow(row) ==
  LET shot == row.snapshot
      main == RegistryPart(row, "mainnet")
      test == RegistryPart(row, "testnet")
      boards == BountyPart(row, "github") \o BountyPart(row, "algora")
  IN  /\ shot.id = row.id
      /\ shot.totalAgents = main.totalAgents + test.totalAgents
      /\ shot.scannedAgents = Len(main.agents) + Len(test.agents)
      /\ Len(shot.agents) = shot.scannedAgents
      /\ \A k \in 1..Len(main.agents) :
           shot.agents[k].agentId = << "mainnet", main.agents[k].agentId >>
      /\ \A k \in 1..Len(test.agents) :
           shot.agents[Len(main.agents) + k].agentId =
             << "testnet", test.agents[k].agentId >>
      /\ shot.services = main.services \o test.services
      /\ Len(shot.bounties) = Len(boards)
      /\ ElementsOf(shot.bounties) = ElementsOf(boards)
      /\ \A k \in 1..(Len(shot.bounties) - 1) :
           shot.bounties[k].rewardCents >= shot.bounties[k + 1].rewardCents

Thm_C33 ==
  /\ \A k \in 1..Len(landscapeSnapshots) : JoinedRow(landscapeSnapshots[k])
  /\ \A k, l \in 1..Len(landscapeSnapshots) :
       landscapeSnapshots[k].id = landscapeSnapshots[l].id => k = l
  /\ \A i \in DOMAIN scanPc :
       /\ scanPc[i] = "returned" =>
            \E k \in 1..Len(landscapeSnapshots) :
              landscapeSnapshots[k].id = scanReturn[i]
       /\ scanPc[i] = "scanning" =>
            \A k \in 1..Len(landscapeSnapshots) :
              landscapeSnapshots[k].id # scanReturn[i]

Wit_C33 ==
  /\ scanPc[1] = "returned"
  /\ Len(landscapeSnapshots) = 1
  /\ landscapeSnapshots[1].settled =
       [b \in Branches |-> IF b \in {"testnet", "github"} THEN "fulfilled"
                           ELSE "rejected"]
  /\ landscapeSnapshots[1].snapshot.totalAgents = 1
  /\ Len(landscapeSnapshots[1].snapshot.bounties) = 2

\* ------------------------------------------------------------------------
\* Termination of a wake session
\* ------------------------------------------------------------------------
\* bootstrap steps of the session whose executeTool call returned
ReturnedSteps ==
  Cardinality({ i \in DOMAIN bootOutcomes : bootOutcomes[i] # "thrown" })

\* loop (inference) turns the session has persisted
LoopTurns == persistedTurns - ReturnedSteps

\* C34: every wake session terminates whatever the backend and the tools
\* do: a session that is running eventually returns; it completes at most
\* 20 turns, and while it runs no more than 4 iterations have failed since
\* the last completed one (the fifth failure in a row ends it)
Thm_C34 ==
  /\ (pc # "stopped") ~> (pc = "stopped")
  /\ [](persistedTurns <= MAX_TURNS_PER_WAKE /\ LoopTurns <= MAX_TURNS_PER_WAKE)
  /\ [](failStreak <= MAX_CONSECUTIVE_ERRORS)
  /\ [](pc # "stopped" => failStreak < MAX_CONSECUTIVE_ERRORS)

\* a session that returned at the turn cap although a bootstrap step had
\* thrown
Wit_C34 ==
  /\ Stopped("cap")
  /\ LoopTurns = MAX_TURNS_PER_WAKE - ReturnedSteps
  /\ ReturnedSteps < Len(bootstrapSteps)

\* ------------------------------------------------------------------------
\* Inputs of iterations that throw
\* ------------------------------------------------------------------------
\* an iteration throws in the inference call or in a tool call
ThrowStep == pc \in {"infer", "tools"} /\ failStreak' = failStreak + 1

\* C35: the pending input is consumed before the inference call.  When an
\* iteration throws at or after that call, nothing is pending afterwards;
\* the wakeup input is the input of the first iteration of the session
\* only; the inbox messages of a failed iteration are marked processed,
\* are the input of no later iteration and of no persisted turn
Thm_C35 ==
  /\ [][ThrowStep =>
          /\ currentInput # "none" \/ currentMessages = {}
          /\ pendingInput' = "none" /\ pendingMessages' = {}
          /\ currentInput' = "none" /\ currentMessages' = {}
          /\ currentMessages \subseteq droppedMessages']_vars
  /\ [](pc \in {"infer", "tools"} => pendingInput = "none")
  /\ [](currentInput = "wakeup" => failStreak = 0 /\ LoopTurns = 0)
  /\ [](droppedMessages \subseteq inboxProcessed)
  /\ [](droppedMessages \cap
          (turnInputs \cup currentMessages \cup pendingMessages) = {})

\* an iteration has thrown with inbox messages as its input, a turn on
\* other messages is persisted and the loop is back at its top
Wit_C35 ==
  /\ droppedMessages # {}
  /\ turnInputs # {}
  /\ pc = "top"
  /\ failStreak = 0

\* ------------------------------------------------------------------------
\* The bootstrap phase and the admission guard
\* ------------------------------------------------------------------------
BootCommands ==
  { CmdKey(bootstrapSteps[i].command) :
      i \in { j \in DOMAIN bootstrapSteps : bootstrapSteps[j].name = "exec" } }

\* the bootstrap step for a tool name is done and its call returned
BootReturned(name) ==
  \E i \in DOMAIN bootOutcomes :
    bootstrapSteps[i].name = name /\ bootOutcomes[i] # "thrown"

\* the first exec request of the session's loop turns for a bootstrap
\* command
C36ExecStep ==
  (/\ ToolStep
   /\ NewResult.name = "exec"
   /\ CmdKey(NewResult.command) \in BootCommands
   /\ GateKey(NewResult) \in bootInvoked
   /\ loopInvoked[GateKey(NewResult)] = 0) =>
    /\ ~NewResult.blocked
    /\ loopInvoked'[GateKey(NewResult)] = 1
    /\ CmdKey(NewResult.command) \notin executedCommands
    /\ CmdKey(NewResult.command) \in executedCommands'

\* a loop-turn request for a once-per-wake tool whose bootstrap step returned
C36OnceStep ==
  (/\ ToolStep
   /\ NewResult.name \in ONCE_PER_WAKE_TOOLS
   /\ BootReturned(NewResult.name)) =>
    /\ NewResult.blocked
    /\ loopInvoked' = loopInvoked

\* C36: the bootstrap phase enters no exec command in the command-dedup
\* set, so the first loop-turn exec request for a bootstrap command is
\* executed; a bootstrap step for a once-per-wake tool that returned enters
\* the tool in the once-per-wake set, so the first loop-turn request for it
\* is blocked
Thm_C36 ==
  /\ [](pc = "bootstrap" => executedCommands = {})
  /\ [](\A c \in executedCommands : loopInvoked[<< "exec", c >>] >= 1)
  /\ [](\A i \in DOMAIN bootOutcomes :
          (pc # "stopped" /\ bootOutcomes[i] # "thrown"
             /\ bootstrapSteps[i].name \in ONCE_PER_WAKE_TOOLS)
            => bootstrapSteps[i].name \in calledOnceTools)
  /\ [][C36ExecStep]_vars
  /\ [][C36OnceStep]_vars

\* after a bootstrap whose steps all returned, the first bootstrap command
\* was executed in a loop turn and the request for check_economics of a
\* later turn was blocked
Wit_C36 ==
  /\ bootOutcomes = << "result", "result", "result" >>
  /\ << "exec", BOOT_CMD_ENV >> \in bootInvoked
  /\ loopInvoked[<< "exec", BOOT_CMD_ENV >>] = 1
  /\ Len(toolCalls) = 1
  /\ toolCalls[1].name = "check_economics" /\ toolCalls[1].blocked
  /\ loopInvoked[<< "check_economics", << >> >>] = 0

\* ------------------------------------------------------------------------
\* Blocked calls in the turn
\* ------------------------------------------------------------------------
\* the turn about to be persisted holds one result, a blocked call
OnlyBlocked == Len(toolCalls) = 1 /\ toolCalls[1].blocked

\* a blocked call is appended to the turn and counted
C37ToolStep ==
  (pc = "tools" /\ pc' = "tools" /\ toolCalls' # toolCalls) =>
    /\ ~CapReached(callCount)
    /\ toolCalls' = Append(toolCalls, NewResult)
    /\ NewResult.blocked /\ NewResult.durationMs = 0
    /\ callCount' = callCount + 1
    /\ loopInvoked' = loopInvoked

\* a turn with a blocked call as its only result moves the repetition
\* counter as a single-call turn does; the third such turn in a row ends
\* the session
C37PersistStep ==
  (PersistStep /\ OnlyBlocked) =>
    LET fp == Fingerprint(toolCalls[1]) IN
    /\ lastToolName' = fp
    /\ consecutiveSameTool' =
         IF fp = lastToolName THEN consecutiveSameTool + 1 ELSE 1
    /\ (runLen = 2 /\ runFp = fp) =>
         /\ consecutiveSameTool' >= STUCK_THRESHOLD
         /\ pc' = "stopped" /\ endReason' = "stuck"
         /\ agentState' = "sleeping"
         /\ sleep_until' = now + STUCK_COOLDOWN

\* C37: blocked calls are recorded in the turn like executed ones: each
\* counts toward the per-turn cap of 10, a turn whose only result is a
\* blocked call is a single-call turn for the repetition counter, and three
\* consecutive turns each requesting only the same blocked call force the
\* stuck-loop sleep
Thm_C37 ==
  /\ [](Len(toolCalls) = callCount /\ callCount <= MAX_TOOL_CALLS_PER_TURN)
  /\ [](loopInvoked = NoCalls)
  /\ [][C37ToolStep]_vars
  /\ [][C37PersistStep]_vars

\* four loop turns without one executor call: a turn of ten blocked calls,
\* then three turns of one blocked call each, the last one forcing the
\* stuck-loop sleep
Wit_C37 ==
  /\ Stopped("stuck")
  /\ persistedTurns = Len(bootstrapSteps) + 4
  /\ runLen = 3
  /\ loopInvoked = NoCalls

\* ------------------------------------------------------------------------
\* Gated calls whose first attempt failed
\* ------------------------------------------------------------------------
\* the gated call of a result is in the set that blocks it
InGate(tc, called, commands) ==
  \/ tc.name \in ONCE_PER_WAKE_TOOLS /\ tc.name \in called
  \/ tc.name = "exec" /\ tc.command # << >>
       /\ CmdKey(tc.command) \in commands

\* a gated call that the executor returned, with or without an error, is in
\* its set afterwards; a request for a call that is in its set is blocked
\* and reaches no executor
C38Step ==
  ToolStep =>
    /\ (Gated(NewResult) /\ ~NewResult.blocked) =>
         InGate(NewResult, calledOnceTools', executedCommands')
    /\ (Gated(NewResult)
          /\ InGate(NewResult, calledOnceTools, executedCommands)) =>
         /\ NewResult.blocked
         /\ loopInvoked' = loopInvoked
         /\ turnExecs' = turnExecs

\* C38: a once-per-wake tool and an exec command are entered in their sets
\* when the first execution returns, with a success or with an error; the
\* sets only grow while the session lasts, so a gated call whose first
\* attempt returned an error is blocked on every later request and is not
\* executed again
Thm_C38 ==
  /\ [][C38Step]_vars
  /\ [][pc' # "bootstrap" =>
          /\ calledOnceTools \subseteq calledOnceTools'
          /\ executedCommands \subseteq executedCommands']_vars
  /\ [](\A i \in 1..Len(toolCalls) :
          (Gated(toolCalls[i]) /\ ~toolCalls[i].blocked) =>
            /\ InGate(toolCalls[i], calledOnceTools, executedCommands)
            /\ \A j \in (i + 1)..Len(toolCalls) :
                 GateKey(toolCalls[j]) = GateKey(toolCalls[i])
                   => toolCalls[j].blocked)

\* in one turn the command returned an error and the second request for it
\* was blocked; check_credits was run in an earlier turn of the session
Wit_C38 ==
  /\ Len(toolCalls) = 2
  /\ toolCalls[1].command = CMD_A
  /\ toolCalls[1].error /\ ~toolCalls[1].blocked
  /\ toolCalls[2].command = CMD_A /\ toolCalls[2].blocked
  /\ loopInvoked[<< "exec", CMD_A >>] = 1
  /\ loopInvoked[<< "check_credits", << >> >>] = 1
  /\ "check_credits" \in calledOnceTools

\* ------------------------------------------------------------------------
\* What the per-wake turn counter counts
\* ------------------------------------------------------------------------
\* a bootstrap step or an iteration of the loop throws
C39ThrowStep ==
  (ThrowStep \/ (pc = "bootstrap" /\ bootIdx' = bootIdx + 1
                   /\ persistedTurns' = persistedTurns)) =>
    /\ turnsThisWake' = turnsThisWake
    /\ persistedTurns' = persistedTurns

\* C39: the per-wake turn counter counts the synthetic bootstrap turns and
\* the loop turns and is left alone by whatever throws, so the persisted
\* loop turns of a session number at most 20 minus the bootstrap steps that
\* returned: at most 17 when all three returned
Thm_C39 ==
  /\ [](turnsThisWake = ReturnedSteps + LoopTurns)
  /\ [](LoopTurns <= MAX_TURNS_PER_WAKE - ReturnedSteps)
  /\ [](ReturnedSteps = Len(bootstrapSteps)
          => LoopTurns <= MAX_TURNS_PER_WAKE - 3)
  /\ [][C39ThrowStep]_vars

\* all three bootstrap steps returned and the session ended at the turn cap
\* with its 17th loop turn
Wit_C39 ==
  /\ Stopped("cap")
  /\ ReturnedSteps = Len(bootstrapSteps)
  /\ LoopTurns = 17
  /\ turnsThisWake = MAX_TURNS_PER_WAKE

\* ------------------------------------------------------------------------
\* The social inbox
\* ------------------------------------------------------------------------
\* rows of the inbox with a message id
RowsOf(id) == { i \in DOMAIN inbox_messages : inbox_messages[i] = id }

\* a run of check_social_inbox returns or throws
RunEnds ==
  \/ socialPc = "polling" /\ socialPc' = "idle"
  \/ socialPc = "idle" /\ socialPc' = "idle" /\ taskRuns' = taskRuns + 1

RequestsWake(result) == result.kind = "returned" /\ result.shouldWake

\* C40: over any sequence of check_social_inbox runs each message id is
\* inserted into the inbox at most once, whatever the polls return again; a
\* run requests a wake exactly when it inserted a message; the poll cursor
\* is written only by a run whose poll returned a next cursor, and then
\* with that cursor
Thm_C40 ==
  /\ [](\A id \in MessageIds : Cardinality(RowsOf(id)) <= 1)
  /\ [](\A id \in MessageIds : RowsOf(id) # {} <=> id \in inbox_seen)
  /\ [][inbox_messages' # inbox_messages => RunEnds]_vars
  /\ [][RunEnds =>
          (RequestsWake(taskResult')
             <=> Len(inbox_messages') > Len(inbox_messages))]_vars
  /\ [][social_inbox_cursor' # social_inbox_cursor =>
          /\ RunEnds
          /\ taskResult'.kind = "returned"
          /\ CursorGiven(taskResult'.nextCursor)
          /\ social_inbox_cursor' = taskResult'.nextCursor]_vars

\* the second run polled messages 1 and 2 after the first had inserted
\* message 1: only message 2 was inserted, a wake is requested, and the
\* cursor is the one the first poll returned, the second having returned
\* none
Wit_C40 ==
  /\ taskRuns = 2
  /\ taskResult = TaskReturn(<< 1, 2 >>, << >>, 1, TRUE)
  /\ inbox_messages = << 1, 2 >>
  /\ social_inbox_cursor = << CURSOR_A >>

====
